---- MODULE Spec2Model ----
(***************************************************************************)
(* A model of the graph construction pipeline of                           *)
(* tensorboard/plugins/graph/tf_graph_common/graph.ts: normalizeInputs,    *)
(* extractOutputShapes, the OpNodeImpl constructor, build (its two async   *)
(* tasks), addEdgeToGraph, getEmbedPredicate, getStrictName,               *)
(* getHierarchicalPath and mapStrictHierarchy.                             *)
(*                                                                         *)
(* A JavaScript string is a sequence of one-character strings, so that     *)
(* startsWith, indexOf, split, the input regular expression and the        *)
(* default sort order are computed character by character.  A JavaScript   *)
(* object that is shared by reference (an OpNode) is a cell of `heap`,     *)
(* named by its identifier; arrays and dictionaries hold identifiers.      *)
(***************************************************************************)
EXTENDS Integers, Sequences, FiniteSets, TLC

(***************************************************************************)
(* Strings                                                                 *)
(***************************************************************************)

\* The characters used by the model, in ascending UTF-16 code unit order
\* (the order of Array.prototype.sort and of < on strings).
Alphabet ==
  << "(", ")", "/", "0", "1", "2", ":", "A", "B", "C", "F", "G", "M", "N", "S",
     "X", "Y", "Z", "^", "_", "a", "b", "c", "d", "e", "f", "g", "i", "l",
     "m", "n", "o", "p", "r", "s", "t", "u", "x", "y" >>

CharCode(c) == CHOOSE i \in 1..Len(Alphabet) : Alphabet[i] = c

Digits == {"0", "1", "2"}

WordChars ==
  {Alphabet[i] : i \in 1..Len(Alphabet)} \ {"(", ")", "/", ":", "^"}

\* a < b on JavaScript strings
RECURSIVE StrLess(_, _)
StrLess(a, b) ==
  IF b = <<>> THEN FALSE
  ELSE IF a = <<>> THEN TRUE
  ELSE IF a[1] = b[1] THEN StrLess(Tail(a), Tail(b))
  ELSE CharCode(a[1]) < CharCode(b[1])

\* _.startsWith(b, a) / String.prototype.startsWith
StartsWith(b, a) ==
  /\ Len(a) <= Len(b)
  /\ SubSeq(b, 1, Len(a)) = a

\* s.indexOf(c, from), 1-based; 0 when absent
RECURSIVE IndexOf(_, _, _)
IndexOf(s, c, from) ==
  IF from > Len(s) THEN 0
  ELSE IF s[from] = c THEN from
  ELSE IndexOf(s, c, from + 1)

\* s.includes(t) for a string t
Includes(s, t) ==
  \E i \in 1..(Len(s) - Len(t) + 1) : SubSeq(s, i, i + Len(t) - 1) = t

NAMESPACE_DELIM == "/"

FUNCTION_LIBRARY_NODE_PREFIX ==
  << "_", "_", "f", "u", "n", "c", "t", "i", "o", "n", "_", "l", "i", "b",
     "r", "a", "r", "y", "_", "_" >>

OUTPUT_SHAPES_KEY == "_output_shapes"

(***************************************************************************)
(* normalizeInputs                                                         *)
(***************************************************************************)

AllIn(t, chars) == t # <<>> /\ \A k \in 1..Len(t) : t[k] \in chars

\* The match of ((\w+:|)\d+)$ on rest, j being the position of the first
\* colon of rest (0 when it has none): <<>> or << name, rest >>.
MatchTensor(name, rest, j) ==
  IF j = 0
  THEN IF AllIn(rest, Digits) THEN <<name, rest>> ELSE <<>>
  ELSE IF /\ AllIn(SubSeq(rest, 1, j - 1), WordChars)
          /\ AllIn(SubSeq(rest, j + 1, Len(rest)), Digits)
       THEN <<name, rest>>
       ELSE <<>>

\* The match of ^([^:]+): on s, i being the position of its first colon
MatchName(s, i) ==
  IF i <= 1 THEN <<>>
  ELSE MatchTensor(SubSeq(s, 1, i - 1), SubSeq(s, i + 1, Len(s)),
                   IndexOf(SubSeq(s, i + 1, Len(s)), ":", 1))

\* s holds at most one ':'
HasNoSecondColon(s) ==
  \A i, j \in 1..Len(s) : (s[i] = ":" /\ s[j] = ":") => i = j

\* The matcher without its <tensor_name>: alternative, /^([^:]+):(\d+)$/
MatcherWithoutTensorName(s) ==
  IF HasNoSecondColon(s) THEN MatchName(s, IndexOf(s, ":", 1)) ELSE <<>>

\* INPUT_NAME_PART_MATCHER = /^([^:]+):((\w+:|)\d+)$/ applied to s:
\* <<>> when s does not match, else << group 1, group 2 >>.
INPUT_NAME_PART_MATCHER(s) == MatchName(s, IndexOf(s, ":", 1))

\* name, outputTensorKey and isControlDependency from the result of match
FromMatch(isControlDependency, inputName, match) ==
  [name |-> IF match # <<>> THEN match[1] ELSE inputName,
   outputTensorKey |-> IF match # <<>> THEN match[2] ELSE <<"0">>,
   isControlDependency |-> isControlDependency]

\* inputName.includes(':') && inputName.match(INPUT_NAME_PART_MATCHER)
Matched(isControlDependency, inputName) ==
  FromMatch(isControlDependency, inputName,
            IF Includes(inputName, <<":">>)
            THEN INPUT_NAME_PART_MATCHER(inputName)
            ELSE <<>>)

\* The fields of the loop body of normalizeInputs for one raw reference
ParseInput(raw) ==
  IF StartsWith(raw, <<"^">>) THEN Matched(TRUE, Tail(raw))
  ELSE Matched(FALSE, raw)

\* The push with a set of seen names in place of lastName: a reference is
\* dropped when its name was pushed at any earlier position.
PushInputSeenBefore(acc, parsed) ==
  IF \A k \in 1..Len(acc.out) : acc.out[k].name # parsed.name
  THEN [out |-> Append(acc.out, parsed), lastName |-> <<parsed.name>>]
  ELSE acc

\* The push that overwrites the entry of a run with its latest reference
\* instead of keeping the first.
PushInputKeepLast(acc, parsed) ==
  IF acc.lastName # <<parsed.name>>
  THEN [out |-> Append(acc.out, parsed), lastName |-> <<parsed.name>>]
  ELSE [acc EXCEPT !.out[Len(acc.out)] = parsed]

\* if (lastName !== name) { lastName = name; normalizedInputs.push(...) }
PushInput(acc, parsed) ==
  IF acc.lastName # <<parsed.name>>
  THEN [out |-> Append(acc.out, parsed), lastName |-> <<parsed.name>>]
  ELSE acc

\* The loop of normalizeInputs: acc is [out |-> normalizedInputs,
\* lastName |-> lastName], lastName being null (<<>>) or a string (<<name>>).
RECURSIVE NormalizeLoop(_, _)
NormalizeLoop(acc, inputs) ==
  IF inputs = <<>> THEN acc
  ELSE NormalizeLoop(PushInput(acc, ParseInput(Head(inputs))), Tail(inputs))

normalizeInputs(inputs) ==
  NormalizeLoop([out |-> <<>>, lastName |-> <<>>], inputs).out

(***************************************************************************)
(* extractOutputShapes and the OpNodeImpl constructor                      *)
(***************************************************************************)

\* An optional value: None is null/undefined, Some(v) is v.
None == <<>>
Some(v) == <<v>>

\* splice(i, 1) on an array
Splice1(arr, i) == SubSeq(arr, 1, i - 1) \o SubSeq(arr, i + 1, Len(arr))

\* The callback of value.list.shape.map: a shape proto is
\* [unknown_rank |-> BOOLEAN, dim |-> None or Some(sequence of sizes)],
\* a size being None (absent) or Some(number).
MapShape(shape) ==
  IF shape.unknown_rank THEN None
  ELSE IF \/ shape.dim = None
          \/ (Len(shape.dim[1]) = 1 /\ shape.dim[1][1] = None)
       THEN Some(<<>>)
       ELSE Some(shape.dim[1])

MapShapes(shapes) == [k \in 1..Len(shapes) |-> MapShape(shapes[k])]

\* extractOutputShapes(attr): [result |-> the return value (None is null),
\* attr |-> attr after the call].  An attribute is [key, value]; the value of
\* the output shapes attribute is None (value.list.shape missing) or
\* Some(list of shape protos).
RECURSIVE ExtractLoop(_, _)
ExtractLoop(attr, i) ==
  IF i > Len(attr) THEN [result |-> None, attr |-> attr]
  ELSE IF attr[i].key = OUTPUT_SHAPES_KEY
       THEN IF attr[i].value = None
            THEN [result |-> None, attr |-> attr]
            ELSE [result |-> Some(MapShapes(attr[i].value[1])),
                  attr |-> Splice1(attr, i)]
       ELSE ExtractLoop(attr, i + 1)

extractOutputShapes(attr) == ExtractLoop(attr, 1)

\* The object the constructor makes, shapes being the result of
\* extractOutputShapes(rawNode.attr): this.attr is the array rawNode.attr.
\* The constructor leaves stats unset; None stands for both the unset field
\* and null, which the only test of the field (stats == null) treats alike.
NewOpNode(rawNode, shapes) ==
  [node |-> [op |-> rawNode.op,
             name |-> rawNode.name,
             device |-> rawNode.device,
             attr |-> shapes.attr,
             inputs |-> normalizeInputs(rawNode.input),
             outputShapes |-> shapes.result,
             inEmbeddings |-> <<>>,
             outEmbeddings |-> <<>>,
             functionInputIndex |-> None,
             functionOutputIndex |-> None,
             stats |-> None],
   attr |-> shapes.attr]

\* new OpNodeImpl(rawNode): [node |-> the new object, attr |-> rawNode.attr
\* after the constructor].
OpNodeImpl(rawNode) == NewOpNode(rawNode, extractOutputShapes(rawNode.attr))

(***************************************************************************)
(* getEmbedPredicate                                                       *)
(***************************************************************************)

Letters == WordChars \ (Digits \cup {"_"})

\* op.match(new RegExp(type)) for the two pattern shapes of the model: a
\* literal (anchored FALSE: the regular expression is `lit`, which matches
\* anywhere in op) and '^[a-zA-Z]+' + lit + '$' (anchored TRUE).
RegExpMatch(op, type) ==
  IF type.anchored
  THEN /\ Len(op) > Len(type.lit)
       /\ SubSeq(op, Len(op) - Len(type.lit) + 1, Len(op)) = type.lit
       /\ \A k \in 1..(Len(op) - Len(type.lit)) : op[k] \in Letters
  ELSE Includes(op, type.lit)

getEmbedPredicate(types, node) ==
  \E i \in 1..Len(types) : RegExpMatch(node.op, types[i])

(***************************************************************************)
(* build, first task: 'Normalizing names'                                  *)
(***************************************************************************)

\* A JavaScript dictionary is a function on the set of its keys.
EmptyDict == [k \in {} |-> <<>>]
Put(dict, key, value) ==
  [k \in DOMAIN dict \cup {key} |-> IF k = key THEN value ELSE dict[k]]

\* The _.each of processRawNode over the inputs of an out-embedding node:
\* outEmbeddings[inputName] = outEmbeddings[inputName] || []; push(opNode).
RECURSIVE IndexOutEmbedding(_, _, _)
IndexOutEmbedding(outEmbeddings, inputs, id) ==
  IF inputs = <<>> THEN outEmbeddings
  ELSE LET inputName == Head(inputs).name
           old == IF inputName \in DOMAIN outEmbeddings
                  THEN outEmbeddings[inputName] ELSE <<>>
       IN IndexOutEmbedding(Put(outEmbeddings, inputName, Append(old, id)),
                            Tail(inputs), id)

\* The closure state with the new object on the heap; st.ret is the
\* returned opNode (its identifier), st.rawAttr is rawNode.attr afterwards.
Allocate(st, made) ==
  [st EXCEPT !.heap = Append(@, made.node),
             !.ret = Len(st.heap) + 1,
             !.rawAttr = made.attr]

\* The slot of new Array<OpNode>(n) that nothing was assigned to (object
\* identifiers start at 1); the like slot of nodeNames is None.
EmptySlot == 0

\* new Array(n), every slot being `empty`
NewArray(n, empty) == [k \in 1..n |-> empty]

\* arr[index] = value, for index <= arr.length (index is 0-based)
Store(arr, index, value) ==
  IF index < Len(arr) THEN [arr EXCEPT ![index + 1] = value]
  ELSE Append(arr, value)

\* processRawNode with the out-embedding test before the in-embedding test
ClassifyOutFirst(st, params, opNode) ==
  IF getEmbedPredicate(params.outEmbeddingTypes, opNode)
  THEN [st EXCEPT !.embeddingNodeNames = Append(@, opNode.name),
                  !.outEmbedding = Put(@, opNode.name, st.ret),
                  !.outEmbeddings =
                     IndexOutEmbedding(@, opNode.inputs, st.ret)]
  ELSE IF getEmbedPredicate(params.inEmbeddingTypes, opNode)
  THEN [st EXCEPT !.embeddingNodeNames = Append(@, opNode.name),
                  !.inEmbedding = Put(@, opNode.name, st.ret)]
  ELSE [st EXCEPT !.opNodes = Store(@, st.index, st.ret),
                  !.nodeNames = Store(@, st.index, opNode.name),
                  !.index = @ + 1]

\* processRawNode testing the patterns only when params.enableEmbedding
ClassifyIfEnabled(st, params, opNode) ==
  IF params.enableEmbedding
     /\ getEmbedPredicate(params.inEmbeddingTypes, opNode)
  THEN [st EXCEPT !.embeddingNodeNames = Append(@, opNode.name),
                  !.inEmbedding = Put(@, opNode.name, st.ret)]
  ELSE IF params.enableEmbedding
          /\ getEmbedPredicate(params.outEmbeddingTypes, opNode)
  THEN [st EXCEPT !.embeddingNodeNames = Append(@, opNode.name),
                  !.outEmbedding = Put(@, opNode.name, st.ret),
                  !.outEmbeddings =
                     IndexOutEmbedding(@, opNode.inputs, st.ret)]
  ELSE [st EXCEPT !.opNodes = Store(@, st.index, st.ret),
                  !.nodeNames = Store(@, st.index, opNode.name),
                  !.index = @ + 1]

\* The body of processRawNode after the constructor: st holds opNode as
\* the object st.ret.
Classify(st, params, opNode) ==
  IF getEmbedPredicate(params.inEmbeddingTypes, opNode)
  THEN [st EXCEPT !.embeddingNodeNames = Append(@, opNode.name),
                  !.inEmbedding = Put(@, opNode.name, st.ret)]
  ELSE IF getEmbedPredicate(params.outEmbeddingTypes, opNode)
  THEN [st EXCEPT !.embeddingNodeNames = Append(@, opNode.name),
                  !.outEmbedding = Put(@, opNode.name, st.ret),
                  !.outEmbeddings =
                     IndexOutEmbedding(@, opNode.inputs, st.ret)]
  ELSE [st EXCEPT !.opNodes = Store(@, st.index, st.ret),
                  !.nodeNames = Store(@, st.index, opNode.name),
                  !.index = @ + 1]

Constructed(st, params, made) ==
  Classify(Allocate(st, made), params, made.node)

\* processRawNode(rawNode) on the closure state st of build
processRawNode(st, params, rawNode) ==
  Constructed(st, params, OpNodeImpl(rawNode))

\* The graph description with the attr of top-level node k as the
\* constructor left it
TopLevelDone(gd, k, st) ==
  [st |-> st, gd |-> [gd EXCEPT !.node[k].attr = st.rawAttr]]

\* _.each(rawNodes, processRawNode): acc is [st, gd]; the constructor's
\* splice changes graphDef.node[k].attr.
RECURSIVE ProcessRawNodes(_, _, _)
ProcessRawNodes(acc, params, k) ==
  IF k > Len(acc.gd.node) THEN acc
  ELSE ProcessRawNodes(
         TopLevelDone(acc.gd, k,
                      processRawNode(acc.st, params, acc.gd.node[k])),
         params, k + 1)

\* The arguments that processInput or processOutput is called with.  The
\* field of the signature is absent, one argument object (the pbtxt of a
\* single argument), or an array: an object with a name is processed
\* itself, an array is iterated.  An argument has a nonempty name.
ArgList(field) ==
  IF field.form = "absent" THEN <<>>
  ELSE IF field.form = "object" THEN <<field.args[1]>>
  ELSE field.args

\* The index counted from 1
SetInputIndexFromOne(st, index) ==
  [st EXCEPT !.heap[st.ret].functionInputIndex = Some(index + 1)]

\* opNode.functionInputIndex = currentInputIndex for the returned opNode
SetInputIndex(st, index) ==
  [st EXCEPT !.heap[st.ret].functionInputIndex = Some(index)]

\* processInput for the arguments args[k..]: one node per input_arg, tagged
\* with functionInputIndex (0-based).
RECURSIVE ProcessInputs(_, _, _, _, _)
ProcessInputs(st, params, functionNodeName, args, k) ==
  IF k > Len(args) THEN st
  ELSE ProcessInputs(
         SetInputIndex(
           processRawNode(st, params,
             [name |-> functionNodeName \o <<NAMESPACE_DELIM>>
                         \o args[k].name,
              input |-> <<>>,
              device |-> <<>>,
              op |-> <<"i", "n", "p", "u", "t", "_", "a", "r", "g">>,
              attr |-> <<[key |-> "T", value |-> None]>>]),
           k - 1),
         params, functionNodeName, args, k + 1)

\* processOutput for the arguments args[k..]: outputArgNames maps the
\* prefixed name of each output_arg to its index.
RECURSIVE ProcessOutputs(_, _, _, _)
ProcessOutputs(outputArgNames, functionNodeName, args, k) ==
  IF k > Len(args) THEN outputArgNames
  ELSE ProcessOutputs(
         Put(outputArgNames,
             functionNodeName \o <<NAMESPACE_DELIM>> \o args[k].name, k - 1),
         functionNodeName, args, k + 1)

\* The normalized inputs left without the prefix
PrefixInputsSkipped(inputs, functionNodeName) == inputs

\* The _.each over opNode.inputs that prefixes every normalized input name.
PrefixInputs(inputs, functionNodeName) ==
  [i \in 1..Len(inputs) |->
     [inputs[i] EXCEPT !.name = functionNodeName \o <<NAMESPACE_DELIM>> \o @]]

\* The body node after processRawNode(rawNode): the output index when the
\* name is an output argument's, and the inputs prefixed.
AfterBodyNode(st, rawName, functionNodeName, outputArgNames) ==
  [st EXCEPT
     !.heap[st.ret].functionOutputIndex =
        IF rawName \in DOMAIN outputArgNames
        THEN Some(outputArgNames[rawName]) ELSE @,
     !.heap[st.ret].inputs = PrefixInputs(@, functionNodeName)]

\* The graph description with body node k of function f as processFunction
\* left it: rawNode.name overwritten, attr as the constructor left it.
BodyDone(gd, f, k, rawName, st) ==
  [st |-> st,
   gd |-> [gd EXCEPT !.library[f].node_def[k].name = rawName,
                     !.library[f].node_def[k].attr = st.rawAttr]]

\* One iteration of the _.each over func.node_def; rawName is the prefixed
\* name, rawNode the body node with it.
BodyNode(acc, params, f, functionNodeName, outputArgNames, k, rawName) ==
  BodyDone(acc.gd, f, k, rawName,
    AfterBodyNode(
      processRawNode(acc.st, params,
        [acc.gd.library[f].node_def[k] EXCEPT !.name = rawName]),
      rawName, functionNodeName, outputArgNames))

\* The _.each over func.node_def of processFunction for the function f of
\* the library.
RECURSIVE ProcessBody(_, _, _, _, _, _)
ProcessBody(acc, params, f, functionNodeName, outputArgNames, k) ==
  IF k > Len(acc.gd.library[f].node_def) THEN acc
  ELSE ProcessBody(
         BodyNode(acc, params, f, functionNodeName, outputArgNames, k,
                  functionNodeName \o <<"/">>
                    \o acc.gd.library[f].node_def[k].name),
         params, f, functionNodeName, outputArgNames, k + 1)

\* processFunction(func) once functionNodeName is known
FunctionNodes(acc, params, f, func, functionNodeName) ==
  ProcessBody(
    [st |-> ProcessInputs(
              processRawNode(acc.st, params,
                [name |-> functionNodeName, input |-> <<>>,
                 device |-> <<>>, op |-> <<>>, attr |-> <<>>]),
              params, functionNodeName,
              ArgList(func.signature.input_arg), 1),
     gd |-> acc.gd],
    params, f, functionNodeName,
    ProcessOutputs(EmptyDict, functionNodeName,
                   ArgList(func.signature.output_arg), 1),
    1)

\* processFunction(func) for func = graphDef.library.function[f]
processFunction(acc, params, f) ==
  FunctionNodes(acc, params, f, acc.gd.library[f],
                FUNCTION_LIBRARY_NODE_PREFIX
                  \o acc.gd.library[f].signature.name)

RECURSIVE ProcessFunctions(_, _, _)
ProcessFunctions(acc, params, f) ==
  IF f > Len(acc.gd.library) THEN acc
  ELSE ProcessFunctions(processFunction(acc, params, f), params, f + 1)

\* The closure state of a call of build before its first task runs.
NewClosure ==
  [heap |-> <<>>, inEmbedding |-> EmptyDict, outEmbedding |-> EmptyDict,
   outEmbeddings |-> EmptyDict, embeddingNodeNames |-> <<>>,
   opNodes |-> <<>>, nodeNames |-> <<>>, index |-> 0, ret |-> 0,
   rawAttr |-> <<>>]

\* nodeNames and opNodes as allocated for rawNodes, and index = 0
Allocated(st, rawNodes) ==
  [st EXCEPT !.opNodes = NewArray(Len(rawNodes), EmptySlot),
             !.nodeNames = NewArray(Len(rawNodes), None),
             !.index = 0]

\* The two arrays left as long as they were allocated or grew
SplicedSkipped(acc) == acc

\* opNodes.splice(index); nodeNames.splice(index)
Spliced(acc) ==
  [acc EXCEPT !.st.opNodes = SubSeq(@, 1, acc.st.index),
              !.st.nodeNames = SubSeq(@, 1, acc.st.index)]

\* The task 'Normalizing names': [st |-> closure state after the task,
\* gd |-> the graph description after the task].
NormalizingNamesTask(gd, params) ==
  Spliced(
    ProcessFunctions(
      ProcessRawNodes([st |-> Allocated(NewClosure, gd.node), gd |-> gd],
                      params, 1),
      params, 1))

(***************************************************************************)
(* getStrictName, getHierarchicalPath, mapStrictHierarchy                  *)
(***************************************************************************)

\* parts[parts.length - 1] of name.split(NAMESPACE_DELIM)
RECURSIVE LastPart(_, _)
LastPart(name, from) ==
  LET i == IndexOf(name, NAMESPACE_DELIM, from) IN
  IF i = 0 THEN SubSeq(name, from, Len(name))
  ELSE LastPart(name, i + 1)

getStrictName(name) ==
  name \o <<NAMESPACE_DELIM>> \o <<"(">> \o LastPart(name, 1) \o <<")">>

\* getHierarchicalPath(name) without seriesNames; i is the 1-based position
\* of the current delimiter, 0 when there is none.
RECURSIVE HierarchicalLoop(_, _, _)
HierarchicalLoop(path, name, i) ==
  IF i = 0 THEN Append(path, name)
  ELSE HierarchicalLoop(Append(path, SubSeq(name, 1, i - 1)), name,
                        IndexOf(name, NAMESPACE_DELIM, i + 1))

getHierarchicalPath(name) ==
  HierarchicalLoop(<<>>, name, IndexOf(name, NAMESPACE_DELIM, 1))

\* nodeNames.sort(): ascending in the order of StrLess
RECURSIVE Insert(_, _)
Insert(sorted, x) ==
  IF sorted = <<>> THEN <<x>>
  ELSE IF StrLess(x, Head(sorted)) THEN <<x>> \o sorted
  ELSE <<Head(sorted)>> \o Insert(Tail(sorted), x)

RECURSIVE Sort(_)
Sort(names) ==
  IF names = <<>> THEN <<>>
  ELSE Insert(Sort(SubSeq(names, 1, Len(names) - 1)), names[Len(names)])

\* The inner loop of mapStrictHierarchy for a, from position j (1-based):
\* TRUE when newNameDictionary[a] is set.
RECURSIVE HasChild(_, _, _)
HasChild(nodeNames, a, j) ==
  IF j > Len(nodeNames) THEN FALSE
  ELSE LET b == nodeNames[j] IN
       IF StartsWith(b, a)
       THEN IF Len(b) > Len(a) /\ b[Len(a) + 1] = NAMESPACE_DELIM
            THEN TRUE
            ELSE HasChild(nodeNames, a, j + 1)
       ELSE FALSE

\* The parent namespaces of a: getHierarchicalPath(a).slice(0, -1)
Parents(path) == {path[k] : k \in 1..(Len(path) - 1)}

\* One iteration of the outer loop of mapStrictHierarchy for a = nodeNames[i]
StrictStep(acc, nodeNames, i, a) ==
  [dict |-> IF HasChild(nodeNames, a, i + 1)
            THEN Put(acc.dict, a, getStrictName(a))
            ELSE acc.dict,
   namespaceSet |-> acc.namespaceSet \cup Parents(getHierarchicalPath(a))]

\* The outer loop stopping one name early (i < nodeNames.length - 2)
RECURSIVE StrictMainLoopShort(_, _, _)
StrictMainLoopShort(acc, nodeNames, i) ==
  IF i > Len(nodeNames) - 2 THEN acc
  ELSE StrictMainLoopShort(StrictStep(acc, nodeNames, i, nodeNames[i]),
                           nodeNames, i + 1)

\* The outer loop of mapStrictHierarchy over the sorted names, positions
\* i .. nodeNames.length - 1 (1-based); acc is [dict, namespaceSet].
RECURSIVE StrictMainLoop(_, _, _)
StrictMainLoop(acc, nodeNames, i) ==
  IF i > Len(nodeNames) - 1 THEN acc
  ELSE StrictMainLoop(StrictStep(acc, nodeNames, i, nodeNames[i]),
                      nodeNames, i + 1)

\* The _.each over embeddingNodeNames of mapStrictHierarchy
RECURSIVE StrictEmbeddingLoop(_, _, _)
StrictEmbeddingLoop(dict, namespaceSet, embeddingNodeNames) ==
  IF embeddingNodeNames = <<>> THEN dict
  ELSE LET embeddingName == Head(embeddingNodeNames) IN
       StrictEmbeddingLoop(
         IF embeddingName \in namespaceSet
         THEN Put(dict, embeddingName, getStrictName(embeddingName))
         ELSE dict,
         namespaceSet, Tail(embeddingNodeNames))

\* The second loop of mapStrictHierarchy on the result of the first
StrictEmbeddings(main, embeddingNodeNames) ==
  StrictEmbeddingLoop(main.dict, main.namespaceSet, embeddingNodeNames)

mapStrictHierarchy(nodeNames, embeddingNodeNames) ==
  StrictEmbeddings(
    StrictMainLoop([dict |-> EmptyDict, namespaceSet |-> {}],
                   Sort(nodeNames), 1),
    embeddingNodeNames)

\* normalizedNameDict[name] || name
Normalized(normalizedNameDict, name) ==
  IF name \in DOMAIN normalizedNameDict
  THEN normalizedNameDict[name] ELSE name

(***************************************************************************)
(* build, second task: 'Building the data structure'                       *)
(***************************************************************************)

\* The _.each that normalizes the names of the out-embeddings of one node
RECURSIVE RenameOutEmbeddings(_, _, _)
RenameOutEmbeddings(heap, dict, ids) ==
  IF ids = <<>> THEN heap
  ELSE RenameOutEmbeddings(
         [heap EXCEPT ![Head(ids)].name = Normalized(dict, @)],
         dict, Tail(ids))

\* 'Check if the node has out-embeddings. If yes, add them to the node',
\* name being opNode.name: the heap afterwards.
AttachOutEmbeddings(heap, dict, outEmbeddings, id, name) ==
  IF name \in DOMAIN outEmbeddings
  THEN RenameOutEmbeddings(
         [heap EXCEPT ![id].outEmbeddings = outEmbeddings[name]],
         dict, outEmbeddings[name])
  ELSE heap

\* One iteration of 'Add the nodes to the graph' for the node id named
\* name; acc is [heap, nodes], nodes being graph.nodes.
AddNamedNode(acc, dict, outEmbeddings, id, name) ==
  [heap |-> [AttachOutEmbeddings(acc.heap, dict, outEmbeddings, id, name)
               EXCEPT ![id].name = Normalized(dict, name)],
   nodes |-> Put(acc.nodes, Normalized(dict, name), id)]

AddNode(acc, dict, outEmbeddings, id) ==
  AddNamedNode(acc, dict, outEmbeddings, id, acc.heap[id].name)

RECURSIVE AddNodes(_, _, _, _)
AddNodes(acc, dict, outEmbeddings, opNodes) ==
  IF opNodes = <<>> THEN acc
  ELSE AddNodes(AddNode(acc, dict, outEmbeddings, Head(opNodes)),
                dict, outEmbeddings, Tail(opNodes))

\* addEdgeToGraph without its lookup in params.refEdges
addEdgeToGraphNeverRef(edges, inputName, outputNode, input, params, index) ==
  IF inputName = outputNode.name THEN edges
  ELSE Append(edges,
         [v |-> inputName,
          w |-> outputNode.name,
          outputTensorKey |-> input.outputTensorKey,
          isControlDependency |-> input.isControlDependency,
          isReferenceEdge |-> FALSE])

\* addEdgeToGraph without its 'Don't allow loops in the graph' return
addEdgeToGraphWithLoops(edges, inputName, outputNode, input, params, index) ==
  Append(edges,
    [v |-> inputName,
     w |-> outputNode.name,
     outputTensorKey |-> input.outputTensorKey,
     isControlDependency |-> input.isControlDependency,
     isReferenceEdge |->
       /\ <<outputNode.op, index>> \in DOMAIN params.refEdges
       /\ params.refEdges[<<outputNode.op, index>>] = TRUE])

\* addEdgeToGraph(graph, inputName, outputNode, input, params, index):
\* the edge list after the call.
addEdgeToGraph(edges, inputName, outputNode, input, params, index) ==
  IF inputName = outputNode.name THEN edges
  ELSE Append(edges,
         [v |-> inputName,
          w |-> outputNode.name,
          outputTensorKey |-> input.outputTensorKey,
          isControlDependency |-> input.isControlDependency,
          isReferenceEdge |->
            /\ <<outputNode.op, index>> \in DOMAIN params.refEdges
            /\ params.refEdges[<<outputNode.op, index>>] = TRUE])

\* The for-of loop over the inputs of an embedding node; `carried` is the
\* input handed to addEdgeToGraph when `own` is FALSE, else each embedInput
\* is handed on itself.
RECURSIVE EmbedEdges(_, _, _, _, _, _, _, _)
EmbedEdges(edges, dict, embedInputs, opNode, carried, own, params, index) ==
  IF embedInputs = <<>> THEN edges
  ELSE EmbedEdges(
         addEdgeToGraph(edges, Normalized(dict, Head(embedInputs).name),
                        opNode,
                        IF own THEN Head(embedInputs) ELSE carried,
                        params, index),
         dict, Tail(embedInputs), opNode, carried, own, params, index)

\* One iteration of the inner _.each of the edge pass for the node opNode
\* (the object id) and its input number i (1-based here, i - 1 in the
\* code); acc is [heap, edges].
AddInputOf(acc, st, dict, params, id, i, opNode, input) ==
  IF input.name \in DOMAIN st.inEmbedding
  THEN [heap |-> [acc.heap EXCEPT ![id].inEmbeddings =
                                     Append(@, st.inEmbedding[input.name])],
        edges |-> EmbedEdges(acc.edges, dict,
                             acc.heap[st.inEmbedding[input.name]].inputs,
                             opNode, input, TRUE, params, i - 1)]
  ELSE IF input.name \in DOMAIN st.outEmbedding
  THEN [heap |-> acc.heap,
        edges |-> EmbedEdges(acc.edges, dict,
                             acc.heap[st.outEmbedding[input.name]].inputs,
                             opNode, input, FALSE, params, i - 1)]
  ELSE [heap |-> acc.heap,
        edges |-> addEdgeToGraph(acc.edges, Normalized(dict, input.name),
                                 opNode, input, params, i - 1)]

AddInput(acc, st, dict, params, id, i) ==
  AddInputOf(acc, st, dict, params, id, i, acc.heap[id],
             acc.heap[id].inputs[i])

RECURSIVE AddInputs(_, _, _, _, _, _)
AddInputs(acc, st, dict, params, id, i) ==
  IF i > Len(acc.heap[id].inputs) THEN acc
  ELSE AddInputs(AddInput(acc, st, dict, params, id, i),
                 st, dict, params, id, i + 1)

RECURSIVE AddEdges(_, _, _, _, _)
AddEdges(acc, st, dict, params, opNodes) ==
  IF opNodes = <<>> THEN acc
  ELSE AddEdges(AddInputs(acc, st, dict, params, Head(opNodes), 1),
                st, dict, params, Tail(opNodes))

\* 'Normalize the names of in-embeddings': every value of inEmbedding once
RenameInEmbeddings(heap, dict, inEmbedding) ==
  LET ids == {inEmbedding[k] : k \in DOMAIN inEmbedding} IN
  [id \in 1..Len(heap) |->
     IF id \in ids
     THEN [heap[id] EXCEPT !.name = Normalized(dict, @)]
     ELSE heap[id]]

\* The end of the task: the in-embeddings renamed, and the graph returned
Wired(st, dict, added, wired) ==
  [heap |-> RenameInEmbeddings(wired.heap, dict, st.inEmbedding),
   nodes |-> added.nodes,
   edges |-> wired.edges,
   nodeNames |-> Sort(st.nodeNames),
   dict |-> dict]

\* The edge pass, on the result of the node pass
Added(st, params, dict, added) ==
  Wired(st, dict, added,
        AddEdges([heap |-> added.heap, edges |-> <<>>], st, dict, params,
                 st.opNodes))

\* The node pass, on normalizedNameDict
Renamed(st, params, dict) ==
  Added(st, params, dict,
        AddNodes([heap |-> st.heap, nodes |-> EmptyDict], dict,
                 st.outEmbeddings, st.opNodes))

\* The task 'Building the data structure' on the closure state st:
\* [heap, nodes, edges, nodeNames, dict].
BuildingTask(st, params) ==
  Renamed(st, params,
          mapStrictHierarchy(st.nodeNames, st.embeddingNodeNames))

(***************************************************************************)
(* joinStatsInfoWithGraph                                                  *)
(***************************************************************************)

\* new NodeStats(outputSize), of tf_graph_common/common.ts: the output
\* sizes, the byte allocations accumulated so far and the execution
\* intervals recorded so far.
NodeStats(outputSize) ==
  [outputSize |-> outputSize, totalBytes |-> 0, executionTimes |-> <<>>]

\* NodeStats.addBytesAllocation
addBytesAllocation(nodeStats, totalBytes) ==
  [nodeStats EXCEPT !.totalBytes = @ + totalBytes]

\* NodeStats.addExecutionTime
addExecutionTime(nodeStats, startTime, endTime) ==
  [nodeStats EXCEPT !.executionTimes = Append(@, <<startTime, endTime>>)]

\* if (v) for an optional number v: a missing field and 0 are falsy
Truthy(v) == v # None /\ v[1] # 0

\* The allocation without its sign test: every truthy total_bytes is added
AddAllocationAnySign(totalBytes, total_bytes) ==
  IF Truthy(total_bytes) THEN totalBytes + total_bytes[1] ELSE totalBytes

\* The callback of _.each(nodeStats.memory, ...)
AddAllocation(totalBytes, total_bytes) ==
  IF Truthy(total_bytes) /\ total_bytes[1] > 0
  THEN totalBytes + total_bytes[1]
  ELSE totalBytes

RECURSIVE TotalBytesLoop(_, _)
TotalBytesLoop(totalBytes, memory) ==
  IF memory = <<>> THEN totalBytes
  ELSE TotalBytesLoop(AddAllocation(totalBytes, Head(memory).total_bytes),
                      Tail(memory))

\* 'Compute the total bytes used.'
TotalBytes(memory) ==
  IF memory # None THEN TotalBytesLoop(0, memory[1]) ELSE 0

\* outputSize: null, or the dimension sizes of every output
OutputSize(output) ==
  IF output # None
  THEN Some([k \in 1..Len(output[1]) |->
               [d \in 1..Len(output[1][k].dim) |-> output[1][k].dim[d].size]])
  ELSE None

\* graph.nodes[nodeName].device = devStats.device
WithDevice(node, device) == [node EXCEPT !.device = device]

\* if (graph.nodes[nodeName].stats == null) stats = new NodeStats(outputSize)
WithStats(node, outputSize) ==
  IF node.stats = None
  THEN [node EXCEPT !.stats = Some(NodeStats(outputSize))]
  ELSE node

\* graph.nodes[nodeName].stats.addBytesAllocation(totalBytes)
WithBytes(node, totalBytes) ==
  [node EXCEPT !.stats = Some(addBytesAllocation(@[1], totalBytes))]

\* The execution time recorded whenever all_end_rel_micros is truthy
WithTimeAnySign(node, all_start_micros, all_end_rel_micros) ==
  IF Truthy(all_end_rel_micros)
  THEN [node EXCEPT !.stats =
          Some(addExecutionTime(@[1], all_start_micros,
                                all_start_micros + all_end_rel_micros[1]))]
  ELSE node

\* if (nodeStats.all_end_rel_micros) { if (... > 0) addExecutionTime(...) }
WithTime(node, all_start_micros, all_end_rel_micros) ==
  IF Truthy(all_end_rel_micros) /\ all_end_rel_micros[1] > 0
  THEN [node EXCEPT !.stats =
          Some(addExecutionTime(@[1], all_start_micros,
                                all_start_micros + all_end_rel_micros[1]))]
  ELSE node

\* The node after the entry nodeStats of the device has been merged into it
Merged(node, device, nodeStats) ==
  WithTime(
    WithBytes(WithStats(WithDevice(node, device),
                        OutputSize(nodeStats.output)),
              TotalBytes(nodeStats.memory)),
    nodeStats.all_start_micros, nodeStats.all_end_rel_micros)

\* The lookup that tries the exact name only
LookupExactOnly(nodes, node_name) == node_name

\* nodeStats.node_name in graph.nodes ? node_name : getStrictName(node_name)
Lookup(nodes, node_name) ==
  IF node_name \in DOMAIN nodes THEN node_name ELSE getStrictName(node_name)

\* The merge that adds a node for a name the graph does not have
JoinAtOrCreate(g, nodeName, device, nodeStats) ==
  IF nodeName \notin DOMAIN g.nodes
  THEN [g EXCEPT !.heap = Append(@, Merged([name |-> nodeName,
                                             device |-> <<>>,
                                             stats |-> None],
                                            device, nodeStats)),
                 !.nodes = Put(@, nodeName, Len(g.heap) + 1)]
  ELSE [g EXCEPT !.heap[g.nodes[nodeName]] = Merged(@, device, nodeStats)]

\* if (!(nodeName in graph.nodes)) return; else the merge into that node
JoinAt(g, nodeName, device, nodeStats) ==
  IF nodeName \notin DOMAIN g.nodes THEN g
  ELSE [g EXCEPT !.heap[g.nodes[nodeName]] = Merged(@, device, nodeStats)]

\* The callback of _.each(devStats.node_stats, ...)
JoinNodeStats(g, device, nodeStats) ==
  JoinAt(g, Lookup(g.nodes, nodeStats.node_name), device, nodeStats)

RECURSIVE JoinNodeStatsLoop(_, _, _)
JoinNodeStatsLoop(g, device, node_stats) ==
  IF node_stats = <<>> THEN g
  ELSE JoinNodeStatsLoop(JoinNodeStats(g, device, Head(node_stats)),
                         device, Tail(node_stats))

\* devicesForStats && !devicesForStats[devStats.device]: devicesForStats is
\* None (not supplied) or Some(dictionary from device to boolean).
Ignored(devicesForStats, device) ==
  /\ devicesForStats # None
  /\ ~ (device \in DOMAIN devicesForStats[1] /\ devicesForStats[1][device])

\* The device filter that lets every device through
JoinDevStatsUnfiltered(g, devicesForStats, devStats) ==
  JoinNodeStatsLoop(g, devStats.device, devStats.node_stats)

\* The callback of _.each(stats.dev_stats, ...)
JoinDevStats(g, devicesForStats, devStats) ==
  IF Ignored(devicesForStats, devStats.device) THEN g
  ELSE JoinNodeStatsLoop(g, devStats.device, devStats.node_stats)

RECURSIVE JoinDevStatsLoop(_, _, _)
JoinDevStatsLoop(g, devicesForStats, dev_stats) ==
  IF dev_stats = <<>> THEN g
  ELSE JoinDevStatsLoop(JoinDevStats(g, devicesForStats, Head(dev_stats)),
                        devicesForStats, Tail(dev_stats))

\* The reset left out: the stats of an earlier call stay
ResetStatsSkipped(g) == g

\* 'Reset stats for each node.'
ResetStats(g) ==
  [g EXCEPT !.heap =
     [id \in 1..Len(g.heap) |->
        IF \E k \in DOMAIN g.nodes : g.nodes[k] = id
        THEN [g.heap[id] EXCEPT !.stats = None]
        ELSE g.heap[id]]]

\* joinStatsInfoWithGraph(graph, stats, devicesForStats): the graph afterwards
joinStatsInfoWithGraph(g, stats, devicesForStats) ==
  JoinDevStatsLoop(ResetStats(g), devicesForStats, stats.dev_stats)

(***************************************************************************)
(* Inputs                                                                  *)
(***************************************************************************)

sA == <<"A">>
sB == <<"B">>
sAB == <<"A", "/", "B">>
sAstrict == <<"A", "/", "(", "A", ")">>
sAstrictB == <<"A", "/", "(", "A", ")", "/", "B">>
sF == <<"F">>
sG == <<"G">>
sM == <<"M">>
sMN == <<"M", "/", "N">>
sN == <<"N">>
sS == <<"S">>
sX == <<"X">>
sY == <<"Y">>
sZ == <<"Z">>

opAdd == <<"A", "d", "d">>
opAssign == <<"A", "s", "s", "i", "g", "n">>
opConst == <<"C", "o", "n", "s", "t">>
opScalarSummary ==
  <<"S", "c", "a", "l", "a", "r", "S", "u", "m", "m", "a", "r", "y">>

\* DefaultBuildParams, with the entries of refEdges for the operations of
\* the model: 'Const', '^[a-zA-Z]+Summary$', 'Assign 0': true.
DefaultBuildParams ==
  [enableEmbedding |-> TRUE,
   inEmbeddingTypes |-> <<[anchored |-> FALSE, lit |-> opConst]>>,
   outEmbeddingTypes |->
     <<[anchored |-> TRUE,
        lit |-> <<"S", "u", "m", "m", "a", "r", "y">>]>>,
   refEdges |-> (<<opAssign, 0>> :> TRUE)]

\* Other BuildParams a caller may pass
ParamsSet ==
  {DefaultBuildParams,
   [DefaultBuildParams EXCEPT !.enableEmbedding = FALSE],
   [DefaultBuildParams EXCEPT !.inEmbeddingTypes = <<>>,
                              !.refEdges = (<<opAdd, 0>> :> TRUE)
                                             @@ (<<opAssign, 0>> :> FALSE)]}

MaxInputs == 3
MaxNodes == 3
MaxBuilds == 2

SeqsUpTo(S, n) == UNION {[1..k -> S] : k \in 0..n}

DistinctSeqs(S, n) ==
  {q \in UNION {[1..k -> S] : k \in 1..n} :
     \A i, j \in 1..Len(q) : i # j => q[i] # q[j]}

\* The field input_arg or output_arg of a signature: missing, one argument
\* object, an array of arguments
ArgAbsent == [form |-> "absent", args |-> <<>>]
ArgObject(arg) == [form |-> "object", args |-> <<arg>>]
ArgArray(args) == [form |-> "array", args |-> args]

RawNode(name, op, input, attr) ==
  [name |-> name, op |-> op, device |-> <<>>, input |-> input, attr |-> attr]

\* Raw input references: plain, control, slot, named slot, and malformed ones
RawRefs ==
  {sY, <<"^", "Y">>, sZ, <<"Z", ":", "2">>, <<"^", "Z", ":", "1">>,
   <<"Z", ":", "a", ":", "0">>, <<"Z", ":">>, <<":", "2">>,
   <<"^", "^", "Y">>, <<"Z", ":", "x">>}

\* Node names: a node, a node under it, and names that are already strict
NameUniverse == {sA, sAB, sAstrict, sAstrictB}

Ops == {opAdd, opConst, opScalarSummary}

\* The three ways a raw reference to the node `target` is written here
RefForms(target) ==
  {target, <<"^">> \o target, target \o <<":", "1">>}

\* Attribute lists: none, a type, output shapes (one unknown rank, two
\* scalars, one of known rank), output shapes without a list
ShapeList ==
  <<[unknown_rank |-> TRUE, dim |-> None],
    [unknown_rank |-> FALSE, dim |-> None],
    [unknown_rank |-> FALSE, dim |-> Some(<<None>>)],
    [unknown_rank |-> FALSE, dim |-> Some(<<Some(2), Some(-1)>>)]>>

AttrUniverse ==
  {<<>>,
   <<[key |-> "T", value |-> None]>>,
   <<[key |-> OUTPUT_SHAPES_KEY, value |-> Some(ShapeList)]>>,
   <<[key |-> "T", value |-> None],
     [key |-> OUTPUT_SHAPES_KEY, value |-> Some(ShapeList)]>>,
   <<[key |-> OUTPUT_SHAPES_KEY, value |-> None]>>}

\* The devices of an execution trace
dev0 == <<"d", "0">>
dev1 == <<"d", "1">>

MaxBody == 2
MaxEntries == 1
MaxJoins == 2

\* What a trace entry reports besides its node name: memory records (one
\* of them negative), outputs, a negative elapsed time; one negative memory
\* record and a positive elapsed time; a zero record and a zero elapsed
\* time; nothing at all
StatProfiles ==
  {[memory |-> Some(<<[total_bytes |-> Some(3)], [total_bytes |-> Some(-5)],
                      [total_bytes |-> Some(4)]>>),
    output |-> Some(<<[dim |-> <<[size |-> 2], [size |-> 3]>>]>>),
    all_start_micros |-> 10, all_end_rel_micros |-> Some(-2)],
   [memory |-> Some(<<[total_bytes |-> Some(-5)]>>),
    output |-> None,
    all_start_micros |-> 20, all_end_rel_micros |-> Some(7)],
   [memory |-> Some(<<[total_bytes |-> Some(0)], [total_bytes |-> None]>>),
    output |-> Some(<<>>),
    all_start_micros |-> 30, all_end_rel_micros |-> Some(0)],
   [memory |-> None,
    output |-> None,
    all_start_micros |-> 40, all_end_rel_micros |-> None]}

\* The trace entries: a profile for a node name, which may name no node
NodeStatsUniverse ==
  {[node_name |-> n, memory |-> q.memory, output |-> q.output,
    all_start_micros |-> q.all_start_micros,
    all_end_rel_micros |-> q.all_end_rel_micros] :
     n \in {sA, sAB, sB}, q \in StatProfiles}

\* The execution traces: no device, device d0, or d0 then d1, each with at
\* most MaxEntries entries
StepStatsUniverse ==
  {[dev_stats |-> <<>>]}
  \cup {[dev_stats |-> <<[device |-> dev0, node_stats |-> e0]>>] :
          e0 \in SeqsUpTo(NodeStatsUniverse, MaxEntries)}
  \cup {[dev_stats |-> <<[device |-> dev0, node_stats |-> e0],
                         [device |-> dev1, node_stats |-> e1]>>] :
          e0 \in SeqsUpTo(NodeStatsUniverse, MaxEntries),
          e1 \in SeqsUpTo(NodeStatsUniverse, MaxEntries)}

\* devicesForStats: not supplied, only d0 (d1 is missing from it), d1 and
\* not d0
DevicesForStatsUniverse ==
  {None, Some(dev0 :> TRUE), Some((dev0 :> FALSE) @@ (dev1 :> TRUE))}

\* The node names of the graphs that statistics are joined with
StatsNames ==
  {<<sA>>, <<sAB>>, <<sA, sAB>>, <<sA, sAstrict>>, <<sA, sAB, sAstrict>>}

(***************************************************************************)
(* The state machine                                                       *)
(***************************************************************************)

VARIABLES
  graphDef,    \* the graph description handed to build: [node, library]
  params,      \* the BuildParams handed to build
  pc,          \* "idle", or the task of build that runs next
  normalized,  \* the closure state of build after 'Normalizing names'
  graph,       \* the SlimGraph and heap after 'Building the data structure'
  results,     \* the graphs returned by the calls of build so far
  stats,       \* the StepStats of the last call of joinStatsInfoWithGraph
  devicesForStats,  \* the devicesForStats of that call
  joined,      \* the number of calls of joinStatsInfoWithGraph so far
  tracker      \* the phases reported to the tracker handed to build

vars ==
  <<graphDef, params, pc, normalized, graph, results, stats, devicesForStats,
    joined, tracker>>

\* The arguments of joinStatsInfoWithGraph
statsVars == <<stats, devicesForStats, joined>>

\* tf_graph_util.runAsyncTask(msg, incProgressValue, task, tracker): the
\* reports of the tracker once the task has run; the promise that
\* runAsyncTask returns resolves with the task's result then.
runAsyncTask(reports, msg, incProgressValue) ==
  Append(reports, [msg |-> msg, incProgressValue |-> incProgressValue])

NoGraph ==
  [heap |-> <<>>, nodes |-> EmptyDict, edges |-> <<>>, nodeNames |-> <<>>,
   dict |-> EmptyDict]

\* What a caller sees of a node: its fields, and the fields of the nodes in
\* its embedding lists.
Flat(heap, id) ==
  [name |-> heap[id].name, op |-> heap[id].op, attr |-> heap[id].attr,
   inputs |-> heap[id].inputs, outputShapes |-> heap[id].outputShapes,
   functionInputIndex |-> heap[id].functionInputIndex,
   functionOutputIndex |-> heap[id].functionOutputIndex]

View(heap, id) ==
  [node |-> Flat(heap, id),
   inEmbeddings |-> [k \in 1..Len(heap[id].inEmbeddings) |->
                       Flat(heap, heap[id].inEmbeddings[k])],
   outEmbeddings |-> [k \in 1..Len(heap[id].outEmbeddings) |->
                        Flat(heap, heap[id].outEmbeddings[k])]]

\* The value of a returned SlimGraph
Returned(g) ==
  [nodes |-> [k \in DOMAIN g.nodes |-> View(g.heap, g.nodes[k])],
   edges |-> g.edges]

Start(gd, p) ==
  /\ graphDef = gd
  /\ params = p
  /\ pc = "idle"
  /\ normalized = NewClosure
  /\ graph = NoGraph
  /\ results = <<>>
  /\ stats = [dev_stats |-> <<>>]
  /\ devicesForStats = None
  /\ joined = 0
  /\ tracker = <<>>

\* One node X whose raw input list is any list of raw references
InitInputs ==
  \E input \in SeqsUpTo(RawRefs, MaxInputs) :
    Start([node |-> <<RawNode(sX, opAdd, input, <<>>)>>, library |-> <<>>],
          DefaultBuildParams)

\* The raw references of node k under a wiring: none, every earlier node,
\* every other node
WiredInput(names, k, wiring) ==
  CASE wiring = "none" -> <<>>
    [] wiring = "earlier" -> SubSeq(names, 1, k - 1)
    [] wiring = "others" ->
         SubSeq(names, 1, k - 1) \o SubSeq(names, k + 1, Len(names))

\* Up to MaxNodes nodes with distinct names of NameUniverse, each a main
\* node, an in-embedding or an out-embedding
InitNames ==
  \E names \in DistinctSeqs(NameUniverse, MaxNodes) :
    \E ops \in [1..Len(names) -> Ops] :
      \E wiring \in {"none", "earlier", "others"} :
        \E p \in ParamsSet :
          Start([node |-> [k \in 1..Len(names) |->
                             RawNode(names[k], ops[k],
                                     WiredInput(names, k, wiring), <<>>)],
                 library |-> <<>>], p)

\* Three nodes A, A/B and B of any kind, each with at most one input, which
\* references any of the three in any form
InitEdges ==
  LET names == <<sA, sAB, sB>>
      refs == UNION {RefForms(names[k]) : k \in 1..3}
  IN \E ops \in [1..3 -> Ops \cup {opAssign}] :
       \E inputs \in [1..3 -> SeqsUpTo(refs, 1)] :
         Start([node |-> [k \in 1..3 |->
                            RawNode(names[k], ops[k], inputs[k], <<>>)],
                library |-> <<>>], DefaultBuildParams)

\* A node with any attribute list
InitShapes ==
  \E attr \in AttrUniverse :
    \E p \in ParamsSet :
      Start([node |-> <<RawNode(sX, opAdd, <<>>, attr)>>,
             library |-> <<>>], p)

\* A library of one function F with body nodes among M, S, N, with or
\* without a top-level node M
InitLibrary ==
  \E names \in DistinctSeqs({sM, sS, sN}, 3) :
    \E ops \in [1..Len(names) -> Ops] :
      \E wiring \in {"none", "earlier"} :
        \E top \in {<<>>, <<RawNode(sM, opAdd, <<>>, <<>>)>>} :
          \E ins \in {ArgArray(<<>>), ArgArray(<<[name |-> sX]>>)} :
            \E outs \in {ArgArray(<<>>), ArgArray(<<[name |-> sN]>>)} :
              Start([node |-> top,
                     library |->
                       <<[signature |-> [name |-> sF,
                                         input_arg |-> ins,
                                         output_arg |-> outs],
                          node_def |->
                            [k \in 1..Len(names) |->
                               RawNode(names[k], ops[k],
                                       WiredInput(names, k, wiring), <<>>)]]>>],
                    DefaultBuildParams)

Init == InitInputs \/ InitShapes \/ InitLibrary \/ InitEdges \/ InitNames

\* build scheduling its second task at once, without the `then` of the
\* first task's promise
BuildUnchained ==
  /\ pc = "idle"
  /\ Len(results) < MaxBuilds
  /\ pc' = "Building the data structure"
  /\ normalized' = NewClosure
  /\ graph' = NoGraph
  /\ UNCHANGED <<graphDef, params, results, statsVars, tracker>>

\* build(graphDef, params, tracker) is called: the closure variables are
\* set up and the first task is scheduled.
Build ==
  /\ pc = "idle"
  /\ Len(results) < MaxBuilds
  /\ pc' = "Normalizing names"
  /\ normalized' = NewClosure
  /\ graph' = NoGraph
  /\ UNCHANGED <<graphDef, params, results, statsVars, tracker>>

\* The task 'Normalizing names' runs.
Normalize(task) ==
  /\ normalized' = task.st
  /\ graphDef' = task.gd

NormalizingNames ==
  /\ pc = "Normalizing names"
  /\ Normalize(NormalizingNamesTask(graphDef, params))
  /\ tracker' = runAsyncTask(tracker, "Normalizing names", 30)
  /\ pc' = "Building the data structure"
  /\ UNCHANGED <<params, graph, results, statsVars>>

\* The task 'Building the data structure' runs and build's promise resolves
\* with the graph.
Resolve(built) ==
  /\ graph' = built
  /\ results' = Append(results, Returned(built))

BuildingTheDataStructure ==
  /\ pc = "Building the data structure"
  /\ Resolve(BuildingTask(normalized, params))
  /\ tracker' = runAsyncTask(tracker, "Building the data structure", 70)
  /\ pc' = "idle"
  /\ UNCHANGED <<graphDef, params, normalized, statsVars>>

Next == Build \/ NormalizingNames \/ BuildingTheDataStructure

Spec == Init /\ [][Next]_vars

\* The forms of the input arguments and of the output arguments of a function
InputArgs ==
  {ArgAbsent, ArgObject([name |-> sX]), ArgArray(<<>>),
   ArgArray(<<[name |-> sX]>>), ArgArray(<<[name |-> sX], [name |-> sY]>>)}

OutputArgs ==
  {ArgAbsent, ArgObject([name |-> sN]), ArgArray(<<[name |-> sN]>>),
   ArgArray(<<[name |-> sN], [name |-> sM]>>),
   ArgArray(<<[name |-> sM], [name |-> sN]>>)}

\* The raw references of body node k: none, every earlier body node, or the
\* input argument X and every earlier body node
BodyInput(names, k, wiring) ==
  CASE wiring = "none" -> <<>>
    [] wiring = "earlier" -> SubSeq(names, 1, k - 1)
    [] wiring = "args" -> <<sX>> \o SubSeq(names, 1, k - 1)

\* A second function G(Y) with the body node M, which reads Y and is the
\* output
FunctionG ==
  [signature |-> [name |-> sG, input_arg |-> ArgObject([name |-> sY]),
                  output_arg |-> ArgObject([name |-> sM])],
   node_def |-> <<RawNode(sM, opAdd, <<sY>>, <<>>)>>]

\* A library of the function F, with up to MaxBody body nodes among M, N, S
\* and M/N of any kind and arguments of any form, with or without the
\* function G, and with or without a top-level node M
InitFunctions ==
  \E names \in DistinctSeqs({sM, sN, sS, sMN}, MaxBody) :
    \E ops \in [1..Len(names) -> Ops] :
      \E wiring \in {"none", "earlier", "args"} :
        \E top \in {<<>>, <<RawNode(sM, opAdd, <<>>, <<>>)>>} :
          \E ins \in InputArgs : \E outs \in OutputArgs :
            \E more \in {<<>>, <<FunctionG>>} :
              Start([node |-> top,
                     library |->
                       <<[signature |-> [name |-> sF,
                                         input_arg |-> ins,
                                         output_arg |-> outs],
                          node_def |->
                            [k \in 1..Len(names) |->
                               RawNode(names[k], ops[k],
                                       BodyInput(names, k, wiring), <<>>)]]>>
                       \o more],
                    DefaultBuildParams)

SpecLibrary == InitFunctions /\ [][Next]_vars

\* Graphs of main nodes, each reading every earlier one, for the statistics
InitStats ==
  \E names \in StatsNames :
    Start([node |-> [k \in 1..Len(names) |->
                       RawNode(names[k], opAdd,
                               WiredInput(names, k, "earlier"), <<>>)],
           library |-> <<>>], DefaultBuildParams)

\* new SlimGraph() filled by its caller: graph.nodes[name] = new
\* OpNodeImpl(rawNode) for each raw node, no edge
SlimGraph(rawNodes) ==
  [heap |-> [k \in 1..Len(rawNodes) |-> OpNodeImpl(rawNodes[k]).node],
   nodes |-> [n \in {rawNodes[k].name : k \in 1..Len(rawNodes)} |->
                CHOOSE k \in 1..Len(rawNodes) : rawNodes[k].name = n],
   edges |-> <<>>, nodeNames |-> <<>>, dict |-> EmptyDict]

\* A graph that its caller assembled with a node A and a node A/(A), which
\* build never returns together
InitAssembled ==
  /\ graphDef = [node |-> <<RawNode(sA, opAdd, <<>>, <<>>),
                            RawNode(sAstrict, opAdd, <<>>, <<>>)>>,
                 library |-> <<>>]
  /\ params = DefaultBuildParams
  /\ pc = "idle"
  /\ normalized = NewClosure
  /\ graph = SlimGraph(graphDef.node)
  /\ results = <<>>
  /\ stats = [dev_stats |-> <<>>]
  /\ devicesForStats = None
  /\ joined = 0
  /\ tracker = <<>>

\* build is called before any statistics are joined.
BuildBeforeStats ==
  /\ joined = 0
  /\ Build

\* The call with the arguments s and d
Join(s, d) ==
  /\ graph' = joinStatsInfoWithGraph(graph, s, d)
  /\ stats' = s
  /\ devicesForStats' = d
  /\ joined' = joined + 1

\* joinStatsInfoWithGraph(graph, stats, devicesForStats) is called on the
\* graph that build returned or that the caller assembled.
JoinStatsInfoWithGraph ==
  /\ pc = "idle"
  /\ graph # NoGraph
  /\ joined < MaxJoins
  /\ \E s \in StepStatsUniverse : \E d \in DevicesForStatsUniverse :
       Join(s, d)
  /\ UNCHANGED <<graphDef, params, pc, normalized, results, tracker>>

NextStats ==
  \/ BuildBeforeStats
  \/ NormalizingNames
  \/ BuildingTheDataStructure
  \/ JoinStatsInfoWithGraph

InitWithGraph == InitStats \/ InitAssembled

SpecStats == InitWithGraph /\ [][NextStats]_vars

(***************************************************************************)
(* Properties                                                              *)
(***************************************************************************)

\* A call of build has returned and no other call is in progress: `graph`
\* is the returned graph, `normalized` the nodes as the first task left them.
Finished == pc = "idle" /\ results # <<>>

\* The first task of the current call has run.
Normalised == pc = "Building the data structure" \/ Finished

MainIds == {normalized.opNodes[k] : k \in 1..Len(normalized.opNodes)}
InIds ==
  {id \in 1..Len(normalized.heap) :
     getEmbedPredicate(params.inEmbeddingTypes, normalized.heap[id])}
OutIds ==
  {id \in 1..Len(normalized.heap) \ InIds :
     getEmbedPredicate(params.outEmbeddingTypes, normalized.heap[id])}

\* The name of a node before and after the second task
PreName(id) == normalized.heap[id].name
FinalName(id) == graph.heap[id].name

Range(f) == {f[k] : k \in DOMAIN f}

\* C1: no edge of a returned graph has its source equal to its destination,
\* whether the edge is direct or rerouted through an embedding.
C1_NoSelfLoop ==
  \A r \in 1..Len(results) :
    \A e \in 1..Len(results[r].edges) :
      results[r].edges[e].v # results[r].edges[e].w

\* C1 witness: a build has returned edges, and an input of a main node
\* names an in-embedding whose own input resolves to that main node.
C1_Witness ==
  /\ Finished
  /\ graph.edges # <<>>
  /\ \E id \in MainIds : \E i \in 1..Len(graph.heap[id].inputs) :
       LET inputName == graph.heap[id].inputs[i].name IN
       /\ inputName \in DOMAIN normalized.inEmbedding
       /\ \E embedInput \in
              Range(graph.heap[normalized.inEmbedding[inputName]].inputs) :
            Normalized(graph.dict, embedInput.name) = FinalName(id)

\* S is an out-embedding that consumes the main node M, and the main node N
\* (another node) consumes S, by the names the first task left.
Bypass(S, M, N) ==
  /\ S \in OutIds /\ M \in MainIds /\ N \in MainIds /\ M # N
  /\ \E e \in Range(normalized.heap[S].inputs) : e.name = PreName(M)
  /\ \E e \in Range(normalized.heap[N].inputs) : e.name = PreName(S)

\* C2: for an out-embedding S consuming main node M, and main node N
\* consuming S, the graph has an edge from M to N, S is no key of the node
\* map, and S is in M's outEmbeddings.
C2_OutEmbeddingBypass ==
  Finished =>
    \A S, M, N \in 1..Len(normalized.heap) :
      Bypass(S, M, N) =>
        /\ \E e \in Range(graph.edges) :
             e.v = FinalName(M) /\ e.w = FinalName(N)
        /\ PreName(S) \notin DOMAIN graph.nodes
        /\ FinalName(S) \notin DOMAIN graph.nodes
        /\ S \in Range(graph.heap[M].outEmbeddings)

\* C3: the control flag and the output slot of the edge from M to N (two
\* nodes of different final names) are those of the input of S that
\* references M.
C3_FlagsOfEmbeddingInput ==
  Finished =>
    \A S, M, N \in 1..Len(normalized.heap) :
      (Bypass(S, M, N) /\ FinalName(M) # FinalName(N)) =>
        \E e \in Range(graph.edges) :
          /\ e.v = FinalName(M) /\ e.w = FinalName(N)
          /\ \E in \in Range(normalized.heap[S].inputs) :
               /\ in.name = PreName(M)
               /\ e.isControlDependency = in.isControlDependency
               /\ e.outputTensorKey = in.outputTensorKey

\* C4: no key of a returned node map is a strict path prefix of another key.
C4_NoKeyIsNamespace ==
  \A r \in 1..Len(results) :
    \A k1, k2 \in DOMAIN results[r].nodes :
      ~ StartsWith(k2, k1 \o <<NAMESPACE_DELIM>>)

\* C5: a main node named a is renamed to getStrictName(a) exactly when
\* another main node is named a/..., and keeps its name otherwise; its final
\* name is a key of the node map.  The nodes A and A/B give the keys A/(A)
\* and A/B.
C5_RenamedIffNamespace ==
  Finished =>
    /\ \A id \in MainIds :
         /\ FinalName(id) =
              IF \E other \in MainIds \ {id} :
                   StartsWith(PreName(other),
                              PreName(id) \o <<NAMESPACE_DELIM>>)
              THEN getStrictName(PreName(id))
              ELSE PreName(id)
         /\ FinalName(id) \in DOMAIN graph.nodes
    /\ {PreName(id) : id \in MainIds} = {sA, sAB}
         => DOMAIN graph.nodes = {sAstrict, sAB}

\* C5 witness: the main nodes are A and A/B, with or without embeddings
\* beside them, and the build has returned.
C5_Witness ==
  /\ Finished
  /\ {PreName(id) : id \in MainIds} = {sA, sAB}
  /\ InIds \cup OutIds # {}

\* C6: an embedding node is not stored in the node map, and neither its
\* original nor its final name is a key of the node map.
C6_EmbeddingIsNoKey ==
  Finished =>
    \A id \in InIds \cup OutIds :
      /\ id \notin Range(graph.nodes)
      /\ PreName(id) \notin DOMAIN graph.nodes
      /\ FinalName(id) \notin DOMAIN graph.nodes

\* The raw input list of the top-level node k and its normalized inputs:
\* the first task makes the objects 1 .. graphDef.node.length from the
\* top-level nodes, in order.
RawInput(k) == graphDef.node[k].input
Inputs(k) == normalized.heap[k].inputs

\* A reference without its caret
Body(raw) == IF raw # <<>> /\ raw[1] = "^" THEN Tail(raw) ELSE raw

\* s has the form <name>:<integer> or <name>:<word>:<integer>, the name
\* ending at position i - 1
HasFormAt(s, i) ==
  /\ i \in 2..Len(s)
  /\ s[i] = ":"
  /\ \A k \in 1..(i - 1) : s[k] # ":"
  /\ LET rest == SubSeq(s, i + 1, Len(s)) IN
       \/ AllIn(rest, Digits)
       \/ \E j \in 1..Len(rest) :
            /\ rest[j] = ":"
            /\ AllIn(SubSeq(rest, 1, j - 1), WordChars)
            /\ AllIn(SubSeq(rest, j + 1, Len(rest)), Digits)

HasForm(s) == \E i \in 1..Len(s) : HasFormAt(s, i)

\* The source name, the slot and the control flag a raw reference stands for
SourceOf(raw) ==
  IF HasForm(Body(raw))
  THEN SubSeq(Body(raw), 1,
              (CHOOSE i \in 1..Len(Body(raw)) : HasFormAt(Body(raw), i)) - 1)
  ELSE Body(raw)

SlotOf(raw) ==
  IF HasForm(Body(raw))
  THEN SubSeq(Body(raw), Len(SourceOf(raw)) + 2, Len(Body(raw)))
  ELSE <<"0">>

Sources(raws) == [i \in 1..Len(raws) |-> SourceOf(raws[i])]

\* The positions at which a run of references to one source starts
RunStarts(raws) ==
  SelectSeq([i \in 1..Len(raws) |-> i],
            LAMBDA i : i = 1 \/ SourceOf(raws[i]) # SourceOf(raws[i - 1]))

Names(inputs) == [i \in 1..Len(inputs) |-> inputs[i].name]

\* C7 as stated: the normalized input list of a node has at most one entry
\* per distinct source name.
C7_OnePerSource ==
  Normalised =>
    \A k \in 1..Len(graphDef.node) :
      \A i, j \in 1..Len(Inputs(k)) :
        i # j => Inputs(k)[i].name # Inputs(k)[j].name

\* C7 as amended: the normalized input list has exactly one entry per run
\* of consecutive references to one source name, in the order of the runs;
\* a source referenced again after another source gets another entry.
C7_OnePerRun ==
  Normalised =>
    \A k \in 1..Len(graphDef.node) :
      Names(Inputs(k)) =
        [m \in 1..Len(RunStarts(RawInput(k))) |->
           Sources(RawInput(k))[RunStarts(RawInput(k))[m]]]

\* C7 witness: a raw list of three references whose first and last name
\* the same source and whose middle one names another has been normalized
\* to three entries.
C7_Witness ==
  /\ Normalised
  /\ \E k \in 1..Len(graphDef.node) :
       /\ Len(RawInput(k)) = 3
       /\ SourceOf(RawInput(k)[1]) = SourceOf(RawInput(k)[3])
       /\ SourceOf(RawInput(k)[1]) # SourceOf(RawInput(k)[2])
       /\ Len(Inputs(k)) = 3

\* C8: no two adjacent normalized inputs have the same source name, and
\* the entry of a run of consecutive references to one source has the slot
\* and the control flag of the first reference of the run.
C8_FirstOfRun ==
  Normalised =>
    \A k \in 1..Len(graphDef.node) :
      /\ \A m \in 1..(Len(Inputs(k)) - 1) :
           Inputs(k)[m].name # Inputs(k)[m + 1].name
      /\ Len(Inputs(k)) = Len(RunStarts(RawInput(k)))
      /\ \A m \in 1..Len(Inputs(k)) :
           LET first == RawInput(k)[RunStarts(RawInput(k))[m]] IN
           /\ Inputs(k)[m].outputTensorKey = SlotOf(first)
           /\ Inputs(k)[m].isControlDependency
                = (first # <<>> /\ first[1] = "^")

\* C8 witness: two consecutive references to one source that differ in
\* slot or control flag have been normalized to one entry.
C8_Witness ==
  /\ Normalised
  /\ \E k \in 1..Len(graphDef.node) :
       /\ Len(RawInput(k)) = 2
       /\ RawInput(k)[1] # RawInput(k)[2]
       /\ SlotOf(RawInput(k)[1]) # SlotOf(RawInput(k)[2])
       /\ Len(Inputs(k)) = 1

\* C9: for a single raw reference, the control flag is set iff it starts
\* with '^'; the rest is split into <name>:<slot> iff it has the form
\* <name>:<integer> or <name>:<word>:<integer>, else it is the name, with
\* slot "0".  ["^Y", "Z:2", "Z:2"] gives [{Y, "0", control}, {Z, "2"}].
C9_ParsedReference ==
  Normalised =>
    \A k \in 1..Len(graphDef.node) :
      /\ Len(RawInput(k)) = 1 =>
           LET raw == RawInput(k)[1]
               got == Inputs(k)
           IN
           /\ Len(got) = 1
           /\ got[1].isControlDependency = (raw # <<>> /\ raw[1] = "^")
           /\ IF HasForm(Body(raw))
              THEN /\ got[1].name \o <<":">> \o got[1].outputTensorKey
                        = Body(raw)
                   /\ got[1].name # <<>>
                   /\ ~ Includes(got[1].name, <<":">>)
              ELSE /\ got[1].name = Body(raw)
                   /\ got[1].outputTensorKey = <<"0">>
      /\ RawInput(k) = << <<"^", "Y">>, <<"Z", ":", "2">>, <<"Z", ":", "2">> >>
           => Inputs(k) =
                << [name |-> sY, outputTensorKey |-> <<"0">>,
                    isControlDependency |-> TRUE],
                   [name |-> sZ, outputTensorKey |-> <<"2">>,
                    isControlDependency |-> FALSE] >>

\* C9 witness: the list ["^Y", "Z:2", "Z:2"] has been normalized.
C9_Witness ==
  /\ Normalised
  /\ \E k \in 1..Len(graphDef.node) :
       RawInput(k) = << <<"^", "Y">>, <<"Z", ":", "2">>, <<"Z", ":", "2">> >>

\* C10: two calls of build with the same graph description and the same
\* BuildParams return equal graphs.
C10_SameGraphTwice ==
  \A r1, r2 \in 1..Len(results) : results[r1] = results[r2]

\* The name, input list and attribute list of a raw node
RawFields(rawNode) ==
  [name |-> rawNode.name, input |-> rawNode.input, attr |-> rawNode.attr]

\* The raw nodes of a graph description: the top-level nodes and the body
\* nodes of every library function, by position
RawNodesOf(gd) ==
  [top |-> [k \in 1..Len(gd.node) |-> RawFields(gd.node[k])],
   body |-> [f \in 1..Len(gd.library) |->
               [k \in 1..Len(gd.library[f].node_def) |->
                  RawFields(gd.library[f].node_def[k])]]]

\* C11: no step of build changes the name, the input list or the attribute
\* list of a raw node, top-level or function body.
C11_RawInputUnchanged ==
  [][RawNodesOf(graphDef') = RawNodesOf(graphDef)]_vars

\* joinStatsInfoWithGraph has been called: `graph` is the graph it left,
\* `stats` and `devicesForStats` are the arguments of the last call.
Joined == joined > 0

\* The positions <<device, entry>> of the trace and the entry at a position
Positions ==
  {p \in (1..Len(stats.dev_stats)) \X (1..MaxEntries + 1) :
     p[2] <= Len(stats.dev_stats[p[1]].node_stats)}
DeviceAt(p) == stats.dev_stats[p[1]].device
EntryAt(p) == stats.dev_stats[p[1]].node_stats[p[2]]

\* The device is selected: no allow-set was supplied, or it marks the
\* device true
Marked(device) ==
  \/ devicesForStats = None
  \/ /\ device \in DOMAIN devicesForStats[1]
     /\ devicesForStats[1][device] = TRUE

\* The key of the node map an entry is for: the exact name, else the strict
\* name, else none
KeyFor(node_name) ==
  IF node_name \in DOMAIN graph.nodes THEN Some(node_name)
  ELSE IF getStrictName(node_name) \in DOMAIN graph.nodes
       THEN Some(getStrictName(node_name))
       ELSE None

\* The positions of the entries of selected devices that are for the key n
MatchedTo(n) ==
  {p \in Positions : Marked(DeviceAt(p)) /\ KeyFor(EntryAt(p).node_name) = Some(n)}

\* The node under the key n
NodeAt(n) == graph.heap[graph.nodes[n]]

\* The sum of the strictly positive total_bytes of an entry
RECURSIVE PositiveBytes(_)
PositiveBytes(memory) ==
  IF memory = <<>> THEN 0
  ELSE (IF Head(memory).total_bytes # None /\ Head(memory).total_bytes[1] > 0
        THEN Head(memory).total_bytes[1] ELSE 0)
       + PositiveBytes(Tail(memory))

EntryBytes(e) == IF e.memory = None THEN 0 ELSE PositiveBytes(e.memory[1])

RECURSIVE BytesOver(_)
BytesOver(ps) ==
  IF ps = {} THEN 0
  ELSE LET p == CHOOSE q \in ps : TRUE
       IN EntryBytes(EntryAt(p)) + BytesOver(ps \ {p})

HasNegativeRecord(e) ==
  /\ e.memory # None
  /\ \E k \in 1..Len(e.memory[1]) :
       e.memory[1][k].total_bytes # None /\ e.memory[1][k].total_bytes[1] < 0

\* C12: after joinStatsInfoWithGraph, the byte count of a node with stats is
\* the sum, over the entries merged into it, of the strictly positive
\* total_bytes of each entry: a negative total_bytes alters nothing.
C12_PositiveBytesOnly ==
  Joined =>
    \A n \in DOMAIN graph.nodes :
      NodeAt(n).stats # None =>
        NodeAt(n).stats[1].totalBytes = BytesOver(MatchedTo(n))

\* C12 witness: a node has the byte count 7 from entries with the records
\* 3, -5 and 4, and another node has the count 0 from the single record -5.
C12_Witness ==
  /\ Joined
  /\ \E n \in DOMAIN graph.nodes :
       /\ NodeAt(n).stats # None
       /\ NodeAt(n).stats[1].totalBytes = 7
       /\ \E p \in MatchedTo(n) : HasNegativeRecord(EntryAt(p))
  /\ \E n \in DOMAIN graph.nodes :
       /\ NodeAt(n).stats # None
       /\ NodeAt(n).stats[1].totalBytes = 0
       /\ \A p \in MatchedTo(n) : HasNegativeRecord(EntryAt(p))

\* The step is a call of joinStatsInfoWithGraph
JoinStep == joined' = joined + 1

\* The device and the stats of the node under the key n
DeviceAndStats(n) == [device |-> NodeAt(n).device, stats |-> NodeAt(n).stats]

\* The keys that some entry of the trace, of any device, is for
Named == {KeyFor(EntryAt(p).node_name) : p \in Positions}

\* C13: a call of joinStatsInfoWithGraph leaves the node map (its keys and
\* the node under each key) and the edge list as they are, and a node that
\* no entry is for (the entries whose name and strict name are both absent
\* from the map are for none) keeps its device and has no stats.
C13_NoNewNodeOrEdge ==
  [][JoinStep =>
       /\ DOMAIN graph'.nodes = DOMAIN graph.nodes
       /\ graph'.nodes = graph.nodes
       /\ graph'.edges = graph.edges
       /\ \A n \in DOMAIN graph.nodes :
            Some(n) \notin Named' =>
              /\ NodeAt(n)'.device = NodeAt(n).device
              /\ NodeAt(n)'.stats = None]_vars

\* C13 witness: a trace with an entry of a selected device that is for no
\* node has been joined with a graph that has an edge, and another entry
\* has given a node its stats.
C13_Witness ==
  /\ Joined
  /\ graph.edges # <<>>
  /\ \E p \in Positions :
       Marked(DeviceAt(p)) /\ KeyFor(EntryAt(p).node_name) = None
  /\ \E n \in DOMAIN graph.nodes : NodeAt(n).stats # None

\* The last position of a nonempty set of positions, in the order of the trace
LastOf(ps) ==
  CHOOSE p \in ps :
    \A q \in ps : q[1] < p[1] \/ (q[1] = p[1] /\ q[2] <= p[2])

\* C14: after joinStatsInfoWithGraph, the nodes that have stats are those
\* that an entry of a selected device is for: the node under the entry's
\* node_name when that key exists, else the node under its strict name; a
\* node under the strict name is not updated when the exact key exists.  An
\* updated node has the device of the last entry for it.
C14_ExactThenStrict ==
  Joined =>
    \A n \in DOMAIN graph.nodes :
      /\ NodeAt(n).stats # None <=>
           \E p \in Positions :
             /\ Marked(DeviceAt(p))
             /\ \/ EntryAt(p).node_name = n
                \/ /\ EntryAt(p).node_name \notin DOMAIN graph.nodes
                   /\ getStrictName(EntryAt(p).node_name) = n
      /\ MatchedTo(n) # {} => NodeAt(n).device = DeviceAt(LastOf(MatchedTo(n)))

\* C14 witness: an entry named A has been merged into the node A/(A) of a
\* graph without the key A.
C14_Witness ==
  /\ Joined
  /\ sA \notin DOMAIN graph.nodes
  /\ sAstrict \in DOMAIN graph.nodes
  /\ NodeAt(sAstrict).stats # None
  /\ \A p \in Positions : EntryAt(p).node_name = sA

\* C14 witness, both keys: an entry named A has been merged into the node A
\* of a graph with the keys A and A/(A), and A/(A) has no stats.
C14_WitnessBothKeys ==
  /\ Joined
  /\ {sA, sAstrict} \subseteq DOMAIN graph.nodes
  /\ NodeAt(sA).stats # None
  /\ NodeAt(sAstrict).stats = None

\* C15: in a call of joinStatsInfoWithGraph with a device allow-set, a node
\* that entries of the trace are for, all of them of devices not marked
\* true in the set, keeps its device and has null stats afterwards, whatever
\* its stats before.
C15_UnselectedDevices ==
  [][(JoinStep /\ devicesForStats' # None) =>
       \A n \in DOMAIN graph.nodes :
         (Some(n) \in Named' /\ MatchedTo(n)' = {}) =>
           /\ NodeAt(n)'.device = NodeAt(n).device
           /\ NodeAt(n)'.stats = None]_vars

\* C15 witness: after a call with an allow-set, a node that an earlier call
\* gave a device (and stats) has null stats, the entries for it being of
\* devices that are not marked true.
C15_Witness ==
  /\ Joined
  /\ devicesForStats # None
  /\ \E n \in DOMAIN graph.nodes :
       /\ Some(n) \in Named
       /\ MatchedTo(n) = {}
       /\ NodeAt(n).device # <<>>
       /\ NodeAt(n).stats = None

\* The elapsed time of the entry is reported and positive
PositiveTime(e) ==
  e.all_end_rel_micros # None /\ e.all_end_rel_micros[1] > 0

NegativeTime(e) ==
  e.all_end_rel_micros # None /\ e.all_end_rel_micros[1] < 0

\* The intervals of the entries at the positions ps with a positive elapsed
\* time, in the order of the trace
RECURSIVE IntervalsOver(_)
IntervalsOver(ps) ==
  IF ps = {} THEN <<>>
  ELSE LET p == LastOf(ps)
       IN IntervalsOver(ps \ {p})
          \o (IF PositiveTime(EntryAt(p))
              THEN << <<EntryAt(p).all_start_micros,
                        EntryAt(p).all_start_micros
                          + EntryAt(p).all_end_rel_micros[1]>> >>
              ELSE <<>>)

\* C16: after joinStatsInfoWithGraph, the intervals recorded for a node are
\* [all_start_micros, all_start_micros + all_end_rel_micros] of exactly the
\* entries for it whose all_end_rel_micros is positive; a node whose only
\* entry has a negative elapsed time has that entry's device and bytes, and
\* no interval.
C16_PositiveTimeOnly ==
  Joined =>
    \A n \in DOMAIN graph.nodes :
      /\ NodeAt(n).stats # None =>
           NodeAt(n).stats[1].executionTimes = IntervalsOver(MatchedTo(n))
      /\ \A p \in MatchedTo(n) :
           (MatchedTo(n) = {p} /\ NegativeTime(EntryAt(p))) =>
             /\ NodeAt(n).stats # None
             /\ NodeAt(n).stats[1].executionTimes = <<>>
             /\ NodeAt(n).stats[1].totalBytes = EntryBytes(EntryAt(p))
             /\ NodeAt(n).device = DeviceAt(p)

\* C16 witness: a node has the interval [20, 27] of an entry with the
\* elapsed time 7, and another node has the bytes 7 and the device, but no
\* interval, of its only entry, whose elapsed time is -2.
C16_Witness ==
  /\ Joined
  /\ \E n \in DOMAIN graph.nodes :
       /\ NodeAt(n).stats # None
       /\ NodeAt(n).stats[1].executionTimes = << <<20, 27>> >>
  /\ \E n \in DOMAIN graph.nodes : \E p \in MatchedTo(n) :
       /\ MatchedTo(n) = {p}
       /\ NegativeTime(EntryAt(p))
       /\ NodeAt(n).stats # None
       /\ NodeAt(n).stats[1].totalBytes = 7
       /\ NodeAt(n).device = DeviceAt(p)

\* The function f of the library, the name of its node, its declared
\* arguments
Function(f) == graphDef.library[f]
FunctionNodeName(f) == FUNCTION_LIBRARY_NODE_PREFIX \o Function(f).signature.name
DeclaredInputs(f) == Function(f).signature.input_arg.args
DeclaredOutputs(f) == Function(f).signature.output_arg.args
Prefixed(f, name) == FunctionNodeName(f) \o <<"/">> \o name

\* The number of nodes created before those of the function f: the
\* top-level nodes, and for each earlier function its node, its input
\* arguments and its body nodes
RECURSIVE Base(_)
Base(f) ==
  IF f = 1 THEN Len(graphDef.node)
  ELSE Base(f - 1) + 1 + Len(DeclaredInputs(f - 1))
         + Len(Function(f - 1).node_def)

\* The nodes of the function f as the first task made them
FunctionNode(f) == normalized.heap[Base(f) + 1]
InputNode(f, k) == normalized.heap[Base(f) + 1 + k]
BodyNodeOf(f, k) == normalized.heap[Base(f) + 1 + Len(DeclaredInputs(f)) + k]

\* C17: after the first task, the nodes made for the library are, for each
\* function in turn: one node named '__function_library__' + its name; one
\* node per declared input argument, named prefix/<argument> and tagged
\* with the argument's 0-based position; and its body nodes, of which the
\* one named like the i-th output argument (prefixed) has
\* functionOutputIndex i (0-based), the others none.  No other node is made.
C17_FunctionNodes ==
  Normalised =>
    /\ Len(normalized.heap) = Base(Len(graphDef.library) + 1)
    /\ \A f \in 1..Len(graphDef.library) :
         /\ FunctionNode(f).name = FunctionNodeName(f)
         /\ Cardinality({id \in 1..Len(normalized.heap) :
                           normalized.heap[id].name = FunctionNodeName(f)}) = 1
         /\ FunctionNode(f).functionInputIndex = None
         /\ \A k \in 1..Len(DeclaredInputs(f)) :
              /\ InputNode(f, k).name = Prefixed(f, DeclaredInputs(f)[k].name)
              /\ InputNode(f, k).functionInputIndex = Some(k - 1)
              /\ InputNode(f, k).functionOutputIndex = None
         /\ \A k \in 1..Len(Function(f).node_def) :
              /\ BodyNodeOf(f, k).functionInputIndex = None
              /\ \A i \in 1..Len(DeclaredOutputs(f)) :
                   BodyNodeOf(f, k).name = Prefixed(f, DeclaredOutputs(f)[i].name)
                     => BodyNodeOf(f, k).functionOutputIndex = Some(i - 1)
              /\ (\A i \in 1..Len(DeclaredOutputs(f)) :
                    BodyNodeOf(f, k).name # Prefixed(f, DeclaredOutputs(f)[i].name))
                   => BodyNodeOf(f, k).functionOutputIndex = None

\* C17 witness: the function F has two input arguments and two output
\* arguments, the second of which names a body node, and there is a second
\* function.
C17_Witness ==
  /\ Normalised
  /\ Len(graphDef.library) = 2
  /\ Len(DeclaredInputs(1)) = 2
  /\ Len(DeclaredOutputs(1)) = 2
  /\ \E k \in 1..Len(Function(1).node_def) :
       BodyNodeOf(1, k).functionOutputIndex = Some(1)
  /\ InputNode(2, 1).functionInputIndex = Some(0)

\* The position in the heap of body node k of the function f
BodyId(f, k) == Base(f) + 1 + Len(DeclaredInputs(f)) + k

\* The names, as the first task made them, of the input-argument nodes and
\* the body nodes of the function f
MembersOf(f) ==
  {normalized.heap[Base(f) + 1 + k].name :
     k \in 1..(Len(DeclaredInputs(f)) + Len(Function(f).node_def))}

\* The normalized inputs with the prefix of the function f on every name
PrefixInputsOf(f, inputs) ==
  [i \in 1..Len(inputs) |->
     [name |-> Prefixed(f, inputs[i].name),
      outputTensorKey |-> inputs[i].outputTensorKey,
      isControlDependency |-> inputs[i].isControlDependency]]

\* The step is the task 'Normalizing names'
NormalizingStep ==
  pc = "Normalizing names" /\ pc' = "Building the data structure"

\* The step is the task 'Building the data structure'
BuildingStep == pc = "Building the data structure" /\ pc' = "idle"

\* The first task names body node k of f prefix/<declared name>, and gives
\* each of its normalized inputs the name prefix/<referenced name>
PrefixedByTask(f, k) ==
  /\ normalized'.heap[BodyId(f, k)'].name =
       Prefixed(f, Function(f).node_def[k].name)
  /\ normalized'.heap[BodyId(f, k)'].inputs =
       PrefixInputsOf(f, normalizeInputs(Function(f).node_def[k].input))

\* C18 (as claimed): the first task names every body node prefix/<declared
\* name> and prefixes every normalized input name, and the second task
\* leaves those names as they are, so that after build the name of a body
\* node is prefix/<declared name>.
C18_BodyNamesAfterBuild ==
  [][/\ NormalizingStep =>
          \A f \in 1..Len(graphDef.library) :
            \A k \in 1..Len(Function(f).node_def) : PrefixedByTask(f, k)
     /\ BuildingStep =>
          \A f \in 1..Len(graphDef.library) :
            \A k \in 1..Len(Function(f).node_def) :
              /\ graph'.heap[BodyId(f, k)].name =
                   normalized.heap[BodyId(f, k)].name
              /\ graph'.heap[BodyId(f, k)].inputs =
                   normalized.heap[BodyId(f, k)].inputs]_vars

\* The declared names of the input arguments and body nodes of f
DeclaredNames(f) ==
  {DeclaredInputs(f)[k].name : k \in 1..Len(DeclaredInputs(f))}
  \cup {Function(f).node_def[k].name : k \in 1..Len(Function(f).node_def)}

\* C18 (amended): the first task names every body node prefix/<declared
\* name> and gives every normalized input the name prefix/<referenced
\* name>, which is the name the first task gave the body node or
\* input-argument node it refers to; the second task leaves the input names
\* as they are, and the node's own name as it is or extended by a
\* strict-name suffix.
C18_BodyNamesPrefixed ==
  [][/\ NormalizingStep =>
          \A f \in 1..Len(graphDef.library) :
            \A k \in 1..Len(Function(f).node_def) :
              /\ PrefixedByTask(f, k)
              /\ \A i \in 1..Len(normalized'.heap[BodyId(f, k)'].inputs) :
                   normalizeInputs(Function(f).node_def[k].input)[i].name
                       \in DeclaredNames(f)
                     => normalized'.heap[BodyId(f, k)'].inputs[i].name
                          \in MembersOf(f)'
     /\ BuildingStep =>
          \A f \in 1..Len(graphDef.library) :
            \A k \in 1..Len(Function(f).node_def) :
              /\ \/ graph'.heap[BodyId(f, k)].name =
                      normalized.heap[BodyId(f, k)].name
                 \/ StartsWith(graph'.heap[BodyId(f, k)].name,
                               normalized.heap[BodyId(f, k)].name \o <<"/", "(">>)
              /\ graph'.heap[BodyId(f, k)].inputs =
                   normalized.heap[BodyId(f, k)].inputs]_vars

\* C18 witness: build has returned a function whose body node M/N reads the
\* body node M and the input argument X by the names the first task gave
\* them, M itself having been renamed to its strict name.
C18_Witness ==
  /\ Finished
  /\ Len(results) = 1
  /\ \E k, j \in 1..Len(Function(1).node_def) :
       /\ PreName(BodyId(1, k)) = Prefixed(1, sM)
       /\ FinalName(BodyId(1, k)) = getStrictName(Prefixed(1, sM))
       /\ \E i \in 1..Len(graph.heap[BodyId(1, j)].inputs) :
            graph.heap[BodyId(1, j)].inputs[i].name = Prefixed(1, sM)
       /\ \E i \in 1..Len(graph.heap[BodyId(1, j)].inputs) :
            /\ graph.heap[BodyId(1, j)].inputs[i].name = Prefixed(1, sX)
            /\ Prefixed(1, sX) \in MembersOf(1)

\* The positions of the inputs of the main node N that name an in-embedding
\* and an out-embedding, and those that name neither
InEmbeddingInputs(N) ==
  {i \in 1..Len(graph.heap[N].inputs) :
     graph.heap[N].inputs[i].name \in DOMAIN normalized.inEmbedding}
OutEmbeddingInputs(N) ==
  {i \in 1..Len(graph.heap[N].inputs) \ InEmbeddingInputs(N) :
     graph.heap[N].inputs[i].name \in DOMAIN normalized.outEmbedding}
DirectInputs(N) ==
  (1..Len(graph.heap[N].inputs))
    \ (InEmbeddingInputs(N) \cup OutEmbeddingInputs(N))

\* The in-embedding that the input i of N names
InEmbeddingAt(N, i) == normalized.inEmbedding[graph.heap[N].inputs[i].name]

\* params.refEdges[op + ' ' + index] === true
IsRefEdge(op, index) ==
  <<op, index>> \in DOMAIN params.refEdges /\ params.refEdges[<<op, index>>]

\* The rename-resolved name
Resolved(name) == Normalized(graph.dict, name)

\* The in-embeddings that the inputs of N name, in the order of the inputs
RECURSIVE InEmbeddingsFrom(_, _)
InEmbeddingsFrom(N, i) ==
  IF i > Len(graph.heap[N].inputs) THEN <<>>
  ELSE (IF i \in InEmbeddingInputs(N) THEN <<InEmbeddingAt(N, i)>> ELSE <<>>)
       \o InEmbeddingsFrom(N, i + 1)

\* C19: for a main node N whose input at position i names the in-embedding
\* E, E is appended to N's inEmbeddings; for each input of E the graph has
\* an edge from that input's rename-resolved source to N with that input's
\* slot and control flag; and the graph has no edge with E as its source.
C19_InEmbeddingEdges ==
  Finished =>
    \A N \in MainIds :
      /\ graph.heap[N].inEmbeddings = InEmbeddingsFrom(N, 1)
      /\ \A i \in InEmbeddingInputs(N) :
           /\ \A k \in 1..Len(graph.heap[InEmbeddingAt(N, i)].inputs) :
                \E e \in Range(graph.edges) :
                  /\ e.v = Resolved(graph.heap[InEmbeddingAt(N, i)].inputs[k].name)
                  /\ e.w = FinalName(N)
                  /\ e.outputTensorKey =
                       graph.heap[InEmbeddingAt(N, i)].inputs[k].outputTensorKey
                  /\ e.isControlDependency =
                       graph.heap[InEmbeddingAt(N, i)].inputs[k].isControlDependency
           /\ \A e \in Range(graph.edges) :
                e.v # FinalName(InEmbeddingAt(N, i))

\* The edge that the claim gives the input i of the main node N
DirectEdge(N, i) ==
  [v |-> Resolved(graph.heap[N].inputs[i].name),
   w |-> FinalName(N),
   outputTensorKey |-> graph.heap[N].inputs[i].outputTensorKey,
   isControlDependency |-> graph.heap[N].inputs[i].isControlDependency,
   isReferenceEdge |-> IsRefEdge(graph.heap[N].op, i - 1)]

\* C20 (as claimed): for every input i of a main node N that names neither
\* an in-embedding nor an out-embedding, the graph has the edge from the
\* rename-resolved input name to N's final name with the input's slot and
\* control flag, and isReferenceEdge true iff refEdges has true for N's op
\* and i (0-based).
C20_DirectEdges ==
  Finished =>
    \A N \in MainIds : \A i \in DirectInputs(N) :
      \E k \in 1..Len(graph.edges) : graph.edges[k] = DirectEdge(N, i)

\* The edges of the inputs i.. of N, none for an input whose resolved name
\* is N's final name
RECURSIVE DirectEdgesOf(_, _)
DirectEdgesOf(N, i) ==
  IF i > Len(graph.heap[N].inputs) THEN <<>>
  ELSE (IF DirectEdge(N, i).v = DirectEdge(N, i).w
        THEN <<>> ELSE <<DirectEdge(N, i)>>)
       \o DirectEdgesOf(N, i + 1)

\* The edges of the main nodes, in the order of the node list
RECURSIVE DirectEdgesFrom(_)
DirectEdgesFrom(opNodes) ==
  IF opNodes = <<>> THEN <<>>
  ELSE DirectEdgesOf(Head(opNodes), 1) \o DirectEdgesFrom(Tail(opNodes))

\* C20 (amended): as claimed, except that an input whose rename-resolved
\* name equals N's final name gets no edge; and in a graph without
\* embeddings the edge list holds exactly one edge per other input, in the
\* order of the nodes and of their inputs.
C20_DirectEdgesButLoops ==
  Finished =>
    /\ \A N \in MainIds : \A i \in DirectInputs(N) :
         IF DirectEdge(N, i).v = DirectEdge(N, i).w
         THEN \A k \in 1..Len(graph.edges) :
                graph.edges[k].v # graph.edges[k].w
         ELSE \E k \in 1..Len(graph.edges) : graph.edges[k] = DirectEdge(N, i)
    /\ (InIds \cup OutIds = {}) =>
         graph.edges = DirectEdgesFrom(normalized.opNodes)

\* C20 witness: build has returned a graph without embeddings that has a
\* reference edge, an edge that is none, a control edge, an edge with the
\* slot 1 and a renamed source.
C20_Witness ==
  /\ Finished
  /\ InIds \cup OutIds = {}
  /\ \E k \in 1..Len(graph.edges) : graph.edges[k].isReferenceEdge
  /\ \E k \in 1..Len(graph.edges) : ~ graph.edges[k].isReferenceEdge
  /\ \E k \in 1..Len(graph.edges) : graph.edges[k].isControlDependency
  /\ \E k \in 1..Len(graph.edges) : graph.edges[k].outputTensorKey = <<"1">>
  /\ \E k \in 1..Len(graph.edges) : graph.edges[k].v = sAstrict

\* BuildParams whose pattern lists overlap: 'Const' is in both lists, or
\* only in the out-embedding list
ClassifyParams ==
  {DefaultBuildParams,
   [DefaultBuildParams EXCEPT
      !.outEmbeddingTypes = <<[anchored |-> FALSE, lit |-> opConst]>> \o @],
   [DefaultBuildParams EXCEPT
      !.inEmbeddingTypes = <<>>,
      !.outEmbeddingTypes = <<[anchored |-> FALSE, lit |-> opConst]>>]}

\* Up to MaxNodes nodes of any kind, each reading the earlier ones, with or
\* without a function F(X) of one body node, under any of ClassifyParams
InitClassify ==
  \E names \in DistinctSeqs({sA, sB, sS}, MaxNodes) :
    \E ops \in [1..Len(names) -> Ops] :
      \E body \in {<<>>} \cup {<<RawNode(sM, op, <<sX>>, <<>>)>> : op \in Ops} :
        \E p \in ClassifyParams :
          Start([node |-> [k \in 1..Len(names) |->
                             RawNode(names[k], ops[k],
                                     WiredInput(names, k, "earlier"), <<>>)],
                 library |->
                   IF body = <<>> THEN <<>>
                   ELSE <<[signature |->
                             [name |-> sF,
                              input_arg |-> ArgArray(<<[name |-> sX]>>),
                              output_arg |-> ArgArray(<<[name |-> sM]>>)],
                           node_def |-> body]>>], p)

SpecClassify == InitClassify /\ [][Next]_vars

\* The classes that the first task has put the node id in
ClassesOf(id) ==
  (IF \E n \in DOMAIN normalized.inEmbedding : normalized.inEmbedding[n] = id
   THEN {"in"} ELSE {})
  \cup
  (IF \E n \in DOMAIN normalized.outEmbedding :
        normalized.outEmbedding[n] = id
   THEN {"out"} ELSE {})
  \cup
  (IF \E k \in 1..Len(normalized.opNodes) : normalized.opNodes[k] = id
   THEN {"main"} ELSE {})

\* The class that the patterns give the node id
ClassFor(id) ==
  IF getEmbedPredicate(params.inEmbeddingTypes, normalized.heap[id])
  THEN "in"
  ELSE IF getEmbedPredicate(params.outEmbeddingTypes, normalized.heap[id])
  THEN "out"
  ELSE "main"

\* C21: after the first task every processed node is in exactly one class:
\* in-embedding when its op matches an in-embedding pattern (also when it
\* matches an out-embedding pattern too), else out-embedding when it matches
\* an out-embedding pattern, else main node; and the list of main nodes holds
\* the main nodes in their processing order, each once, without an empty
\* slot, beside the list of their names.
C21_ClassifierPartition ==
  Normalised =>
    /\ \A id \in 1..Len(normalized.heap) : ClassesOf(id) = {ClassFor(id)}
    /\ Len(normalized.opNodes) =
         Cardinality({id \in 1..Len(normalized.heap) : ClassFor(id) = "main"})
    /\ Len(normalized.nodeNames) = Len(normalized.opNodes)
    /\ \A k \in 1..Len(normalized.opNodes) :
         /\ normalized.opNodes[k] # EmptySlot
         /\ normalized.nodeNames[k] = PreName(normalized.opNodes[k])
         /\ k > 1 => normalized.opNodes[k - 1] < normalized.opNodes[k]

\* C21 witness: the first task has run on nodes of all three classes, one
\* of them matching patterns of both lists, with a main node processed
\* after an embedding and fewer main nodes than raw nodes.
C21_Witness ==
  /\ Normalised
  /\ {ClassFor(id) : id \in 1..Len(normalized.heap)} = {"in", "out", "main"}
  /\ \E id \in 1..Len(normalized.heap) :
       /\ getEmbedPredicate(params.inEmbeddingTypes, normalized.heap[id])
       /\ getEmbedPredicate(params.outEmbeddingTypes, normalized.heap[id])
  /\ \E id \in 1..Len(normalized.heap) :
       ClassFor(id) = "main" /\ id > 1 /\ ClassFor(id - 1) # "main"
  /\ Len(normalized.opNodes) < Len(graphDef.node)

\* The name of the embedding id is a proper parent namespace of the name of
\* a main node, by the names the first task left.
IsNamespaceOfMain(id) ==
  \E m \in MainIds :
    StartsWith(PreName(m), PreName(id) \o <<NAMESPACE_DELIM>>)

\* C22: an embedding node whose name is a proper parent namespace of a main
\* node's name is renamed to getStrictName(name) by build, and an embedding
\* whose name is the namespace of no main node keeps its name.
C22_EmbeddingRenamed ==
  Finished =>
    \A id \in InIds \cup OutIds :
      FinalName(id) = IF IsNamespaceOfMain(id)
                      THEN getStrictName(PreName(id))
                      ELSE PreName(id)

\* C23: after build the name of every node, main node or embedding, is the
\* name the first task gave it or getStrictName of that name.
C23_StrictNameAtMostOnce ==
  Finished =>
    \A id \in 1..Len(graph.heap) :
      FinalName(id) \in {PreName(id), getStrictName(PreName(id))}

\* The number of nodes that the first task has to process: the raw nodes,
\* and for each function of the library its function node, its input
\* arguments and its body nodes
RECURSIVE ToProcess(_, _)
ToProcess(gd, f) ==
  IF f > Len(gd.library) THEN Len(gd.node)
  ELSE 1 + Len(ArgList(gd.library[f].signature.input_arg))
         + Len(gd.library[f].node_def) + ToProcess(gd, f + 1)

\* The last report of the tracker
LastReport(reports) == reports[Len(reports)].msg

\* C24: a step that starts the task 'Building the data structure' starts it
\* on the state that 'Normalizing names' left after processing every raw
\* node and every node of every library function, 'Normalizing names' being
\* the last phase reported; a graph is returned only by a step of
\* 'Building the data structure', and it is the graph of that step.
C24_PhasesInOrder ==
  [][/\ BuildingStep =>
          /\ Len(normalized.heap) = ToProcess(graphDef, 1)
          /\ tracker # <<>>
          /\ LastReport(tracker) = "Normalizing names"
     /\ pc' = "Building the data structure" => NormalizingStep
     /\ results' # results =>
          /\ BuildingStep
          /\ results' = Append(results, Returned(graph'))
          /\ LastReport(tracker') = "Building the data structure"]_vars

\* C24 witness: build has returned twice, each time after both phases, for
\* a graph with raw nodes and a library function.
C24_Witness ==
  /\ Finished
  /\ Len(results) = 2
  /\ graphDef.node # <<>> /\ graphDef.library # <<>>
  /\ [k \in 1..Len(tracker) |-> tracker[k].msg] =
       <<"Normalizing names", "Building the data structure",
         "Normalizing names", "Building the data structure">>

\* The same BuildParams with enableEmbedding negated
OtherEnableEmbedding(p) == [p EXCEPT !.enableEmbedding = ~ @]

\* The first task under the other BuildParams gives the same step
SameNormalizing(other) ==
  /\ normalized' = other.st
  /\ graphDef' = other.gd

\* The second task under the other BuildParams returns the same graph
SameBuilding(other) ==
  /\ graph' = other
  /\ results'[Len(results')] = Returned(other)

\* C25: each task of build does under the BuildParams that differ in
\* enableEmbedding only what it does under the given ones: the first task
\* leaves the same lists and dictionaries, the second returns the same node
\* map, embedding lists and edge list.
C25_EnableEmbeddingUnused ==
  [][/\ NormalizingStep =>
          SameNormalizing(
            NormalizingNamesTask(graphDef, OtherEnableEmbedding(params)))
     /\ BuildingStep =>
          SameBuilding(
            BuildingTask(normalized, OtherEnableEmbedding(params)))]_vars

\* C25 witness: build has returned, with enableEmbedding false, a graph
\* that has an in-embedding and an out-embedding in the lists of its nodes
\* and an edge.
C25_Witness ==
  /\ Finished
  /\ ~ params.enableEmbedding
  /\ \E id \in MainIds : graph.heap[id].inEmbeddings # <<>>
  /\ \E id \in MainIds : graph.heap[id].outEmbeddings # <<>>
  /\ graph.edges # <<>>

\* Every input reference names a processed node, by the names the first
\* task left.
AllReferencesPresent ==
  \A id \in 1..Len(normalized.heap) :
    \A i \in 1..Len(normalized.heap[id].inputs) :
      \E src \in 1..Len(normalized.heap) :
        PreName(src) = normalized.heap[id].inputs[i].name

\* C26: when every input reference names a node of the raw input, the
\* source and the destination of every edge of the returned graph are keys
\* of its node map.
C26_EdgeEndsAreKeys ==
  (Finished /\ AllReferencesPresent) =>
    \A k \in 1..Len(graph.edges) :
      /\ graph.edges[k].v \in DOMAIN graph.nodes
      /\ graph.edges[k].w \in DOMAIN graph.nodes

\* The node id is a node of a library function.
InLibrary(id) == StartsWith(PreName(id), FUNCTION_LIBRARY_NODE_PREFIX)

\* The node S reads the node M, by the names the first task left.
Reads(S, M) ==
  \E i \in 1..Len(normalized.heap[S].inputs) :
    normalized.heap[S].inputs[i].name = PreName(M)

\* C27: an out-embedding S of a function body is in the outEmbeddings list
\* of the main node it reads (the prefixed body node) and of no main node
\* it does not read, such as a top-level node with the unprefixed name.
C27_BodyOutEmbeddingHost ==
  Finished =>
    \A S \in OutIds : \A M \in MainIds :
      InLibrary(S) =>
        (S \in Range(graph.heap[M].outEmbeddings) <=> Reads(S, M))

====
